---------------------------- MODULE Spec2Model ----------------------------
(***************************************************************************)
(* Verification model of the launcher state machine of ipyparallel         *)
(* (src/ipyparallel/apps/launcher.py).                                     *)
(*                                                                         *)
(* One behaviour follows one top-level launcher, whose class is chosen in  *)
(* Init (kind):                                                            *)
(*   "base"   a BaseLauncher driven directly through on_stop,              *)
(*            notify_start and notify_stop;                                *)
(*   "local"  a LocalProcessLauncher;                                      *)
(*   "batch"  a BatchSystemLauncher (PBS, Slurm, SGE, LSF, HTCondor);      *)
(*   "winhpc" a WindowsHPCLauncher;                                        *)
(*   "set"    a LocalEngineSetLauncher with LocalEngineLauncher children.  *)
(* Launcher 0 is the top-level launcher; launchers 1..MaxChildren are the  *)
(* children an engine set constructs.                                      *)
(***************************************************************************)
EXTENDS Integers, Sequences, FiniteSets, TLC

\* ----------------------------------------------------------------- bounds
\* number of engine launchers an engine set constructs and starts in all
MaxChildren == 2
\* number of jobs a batch launcher submits
MaxJobs == 2
\* number of kill timeouts pending in the loop at the same time
MaxKillers == 2
\* number of on_stop() calls made on the top-level launcher
MaxOnStop == 2
\* largest configured depth of the broadcast scheduler tree
MaxDepth == 2
\* largest number of engines attached to the broadcast leaves
MaxEngines == 2
\* largest n passed to write_batch_script
MaxN == 2
\* number of changes made to the traits of a batch launcher
MaxChanges == 2

\* ------------------------------------------------------------- universes
Kinds == {"base", "local", "batch", "winhpc", "set"}
Ids == 0..MaxChildren
Top == 0
MaxPid == MaxChildren + 1
Pids == 1..MaxPid
NoPid == 0
\* the bound method self._notice_engine_stopped, registered on each child
NoticeCb == 0

\* payloads handed to notify_start / notify_stop and to the observers
Payload(t, x, y) == [tag |-> t, a |-> x, b |-> y]
\* traitlets Any() default: None
NoData == Payload("none", 0, 0)
\* the engine set's stop_data trait is the dict itself
DictRef == Payload("dict", 0, 0)
EmptyDict == [i \in 0..(MaxChildren - 1) |-> NoData]

VARIABLES
    kind,            \* class of launcher 0
    py3,             \* interpreter the code runs under: Python 3 or Python 2
    state,           \* self.state of each launcher
    stop_callbacks,  \* self.stop_callbacks of each launcher
    start_data,      \* self.start_data
    stop_data,       \* self.stop_data
    process,         \* self.process.pid of each local launcher, NoPid when None
    poller,          \* the PeriodicCallback of self.poll is running
    handlers,        \* fds of the launcher registered with the loop
    killers,         \* pending loop timeouts scheduled by interrupt_then_kill
    launchers,       \* engine set: self.launchers, in dict insertion order
    set_stop_data,   \* engine set: contents of the self.stop_data dict
    job_id,          \* batch: self.job_id, 0 while the attribute is unset
    submitted,       \* batch: number of jobs the submit command accepted
    nextChild,       \* next launcher id an engine set constructs
    invoked,         \* history: calls made to the observers
    sent,            \* history: the send_signal calls the last step made
    raised,          \* history: the exception the last API call raised
    passed,          \* history: the data of the last notify_stop(data) call
    nextCb,          \* number of the next observer passed to on_stop
    op               \* history: the call or event the last step made

lvars == <<state, stop_callbacks, start_data, stop_data, launchers,
           set_stop_data, invoked>>
pvars == <<process, poller, handlers, killers>>
bvars == <<job_id, submitted, passed>>
launcherVars == <<kind, py3, state, stop_callbacks, start_data, stop_data,
                  process, poller, handlers, killers, launchers,
                  set_stop_data, job_id, submitted, nextChild, invoked, sent,
                  raised, passed, nextCb, op>>

\* IPControllerApp.launch_broadcast_schedulers
VARIABLES
    broadcast_scheduler_depth,  \* factory.broadcast_scheduler_depth
    mq_process,      \* 'Process' in self.mq_class
    calls,           \* pending calls of recursively_start_schedulers
    schedulers,      \* the scheduler_args launched, in launch order
    engines          \* the engine-side broadcast address of each engine

tvars == <<broadcast_scheduler_depth, mq_process, calls, schedulers, engines>>

\* BatchSystemLauncher: the batch script and its template
VARIABLES
    backend,         \* the batch system of the launcher class
    role,            \* the launcher class is a Controller or an EngineSet one
    traits,          \* n, queue, profile_dir, cluster_id, account, qos, ...
    context,         \* self.context
    namespace,       \* self.namespace
    batch_template,  \* self.batch_template, a list of lines
    batch_template_file, \* the lines of the file self.batch_template_file
    batch_file,      \* the script the last step wrote to self.batch_file
    ns,              \* history: the ns the last write_batch_script formatted with
    changes          \* number of changes made to the traits

svars == <<backend, role, traits, context, namespace, batch_template,
           batch_template_file, batch_file, ns, changes>>

\* LoadBalancedView: the scheduler flags
VARIABLES
    task_scheme,     \* self._task_scheme
    after,           \* self.after
    follow,          \* self.follow
    timeout,         \* self.timeout
    retries,         \* self.retries
    flag,            \* history: the flag the last set_flags call was given
    request,         \* history: the metadata of the request the last step sent
    error,           \* history: the exception the last call raised
    call             \* history: the flag the last apply call was given

fvars == <<task_scheme, after, follow, timeout, retries, flag, request, error,
           call>>

\* ipcluster: the start, stop and engines subcommands
VARIABLES
    subcommand,      \* the subcommand run: "start", "stop" or "engines"
    controller_launcher_class, \* IPClusterStart.controller_launcher_class
    engine_launcher_class,     \* IPClusterEngines.engine_launcher_class
    controller_launcher,       \* self.controller_launcher: its class
    engine_launcher,           \* self.engine_launcher: its class
    pid_file,        \* the pids recorded in the pid file; {} when there is none
    alive,           \* the pids of the other running processes
    exit_status,     \* the argument of self.exit; {} while the app has not exited
    app,             \* position of the application
    started_launchers,         \* the launchers whose start() was called
    killed           \* the pids ipcluster stop has signalled

cvars == <<subcommand, controller_launcher_class, engine_launcher_class,
           controller_launcher, engine_launcher, pid_file, alive, exit_status,
           app, started_launchers, killed>>

\* IPControllerApp: the JSON connection files
VARIABLES
    reuse_files,             \* self.reuse_files
    write_connection_files,  \* self.write_connection_files
    client_json_file,        \* the file self.client_json_file names
    engine_json_file,        \* the file self.engine_json_file names
    run,                     \* the number of this run of ipcontroller
    ctl,                     \* position of the controller application
    Session_key              \* self.config.Session.key, 0 while not set

kvars == <<reuse_files, write_connection_files, client_json_file,
           engine_json_file, run, ctl, Session_key>>

\* BroadcastView and its client: message ids tracked
VARIABLES
    is_coalescing,      \* self.is_coalescing
    targets,            \* the engine idents of the last apply
    futures,            \* the msg ids of the futures of the last AsyncResult
    client_history,     \* self.client.history
    client_outstanding, \* self.client.outstanding
    view_history,       \* self.history
    view_outstanding,   \* self.outstanding
    msg_count,          \* the number of messages the client has sent
    balanced_history,   \* self.history of a LoadBalancedView of the client
    balanced_outstanding, \* self.outstanding of the LoadBalancedView
    failures,           \* the number of calls that raised
    last_call,          \* history: the decorated call the last step made
    in_sync_results,    \* self._in_sync_results, by view
    syncs               \* history: the runs of _sync_results in the last call

bvvars == <<is_coalescing, targets, futures, client_history,
            client_outstanding, view_history, view_outstanding, msg_count,
            balanced_history, balanced_outstanding, failures, last_call,
            in_sync_results, syncs>>

\* View.temp_flags on a LoadBalancedView
VARIABLES
    view,            \* the flags of the view, by name
    saved_flags,     \* saved_flags of the temp_flags block entered, if any
    kwargs,          \* the flag the last temp_flags was given
    left,            \* history: how the last step left the block
    temp_error,      \* history: the exception the last step raised
    flag_changes     \* number of set_flags and temp_flags calls made

tfvars == <<view, saved_flags, kwargs, left, temp_error, flag_changes>>

\* TaskScheduler: tasks, engines and replies
VARIABLES
    tasks,           \* the tasks submitted, in arrival order
    live,            \* the live engine set
    load,            \* the outstanding-task counter of each engine
    assignments,     \* the dispatches in effect: <<task, engine>>
    replies          \* the terminal replies delivered for each task

scvars == <<tasks, live, load, assignments, replies>>

\* IPEngineApp: waiting for and loading the connector file
VARIABLES
    url_file,        \* the file self.url_file names: exists, chunks written
    offset,          \* the position of f, the open file, in chunks
    num_tries,       \* num_tries of load_connector_file
    loaded_d,        \* d of load_connector_file: "" or the dict parsed
    elapsed,         \* the sleeps of init_engine waiting for the file
    eng              \* position of the engine application

evars == <<url_file, offset, num_tries, loaded_d, elapsed, eng>>

\* ipcluster start / engines: launchers started and stopped on the loop
VARIABLES
    ipcluster,       \* the application, its launchers and its loop
    last_event       \* history: the callback or handler the last step ran

hvars == <<ipcluster, last_event>>

\* the variables of the other components, which a launcher step leaves alone
xvars == <<tvars, svars, fvars, cvars, kvars, bvvars, tfvars, scvars, evars, hvars>>
\* the variables a step of one component leaves alone
NotTree == <<launcherVars, svars, fvars, cvars, kvars, bvvars, tfvars, scvars, evars, hvars>>
NotScript == <<launcherVars, tvars, fvars, cvars, kvars, bvvars, tfvars, scvars, evars, hvars>>
NotFlags == <<launcherVars, tvars, svars, cvars, kvars, bvvars, tfvars, scvars, evars, hvars>>
NotCluster == <<launcherVars, tvars, svars, fvars, kvars, bvvars, tfvars, scvars, evars, hvars>>
NotController == <<launcherVars, tvars, svars, fvars, cvars, bvvars, tfvars, scvars, evars, hvars>>
NotBroadcast == <<launcherVars, tvars, svars, fvars, cvars, kvars, tfvars, scvars, evars, hvars>>
NotView == <<launcherVars, tvars, svars, fvars, cvars, kvars, bvvars, scvars, evars, hvars>>
NotScheduler == <<launcherVars, tvars, svars, fvars, cvars, kvars, bvvars, tfvars, evars, hvars>>
NotEngine == <<launcherVars, tvars, svars, fvars, cvars, kvars, bvvars, tfvars, scvars, hvars>>
NotShutdown == <<launcherVars, tvars, svars, fvars, cvars, kvars, bvvars, tfvars, scvars, evars>>
vars == <<launcherVars, xvars>>

\* ------------------------------------------------------------------ Init
\* BaseLauncher.__init__, LocalProcessLauncher.__init__
LauncherInit ==
    /\ kind \in Kinds
    /\ py3 \in BOOLEAN
    /\ (kind \notin {"batch"} => py3 = TRUE)
    /\ state = [l \in Ids |-> "before"]
    /\ stop_callbacks = [l \in Ids |-> <<>>]
    /\ start_data = [l \in Ids |-> NoData]
    /\ stop_data = [l \in Ids |-> IF l = Top /\ kind = "set" THEN DictRef ELSE NoData]
    /\ process = [l \in Ids |-> NoPid]
    /\ poller = [l \in Ids |-> FALSE]
    /\ handlers = [l \in Ids |-> {}]
    /\ killers = [l \in Ids |-> 0]
    /\ launchers = <<>>
    /\ set_stop_data = EmptyDict
    /\ job_id = 0
    /\ submitted = 0
    /\ nextChild = 1
    /\ invoked = <<>>
    /\ sent = {}
    /\ raised = "none"
    /\ passed = NoData
    /\ nextCb = 1
    /\ op = "init"

\* no broadcast scheduler tree is being launched
TreeIdle ==
    /\ broadcast_scheduler_depth = 0
    /\ mq_process = FALSE
    /\ calls = <<>>
    /\ schedulers = <<>>
    /\ engines = <<>>

\* no batch script is being written
ScriptIdle ==
    /\ backend = "PBS"
    /\ role = "Controller"
    /\ traits = <<>>
    /\ context = <<>>
    /\ namespace = <<>>
    /\ batch_template = <<>>
    /\ batch_template_file = <<>>
    /\ batch_file = <<>>
    /\ ns = <<>>
    /\ changes = 0

\* traitlets Any() default None, CFloat() default 0.0, Integer(0)
None == [type |-> "NoneType", elems |-> "", num |-> FALSE, val |-> 0]
NoFlag == [name |-> "", value |-> None]
NoRequest == [sent |-> FALSE]
\* no apply call was made
NoCall == [applied |-> FALSE, name |-> "", value |-> None]
FlagsIdle ==
    /\ task_scheme = "leastload"
    /\ after = None
    /\ follow = None
    /\ timeout = 0
    /\ retries = 0
    /\ flag = NoFlag
    /\ request = NoRequest
    /\ error = "none"
    /\ call = NoCall

\* no launcher has been imported or constructed
NoLauncher == <<>>
\* no ipcluster subcommand is run
ClusterIdle ==
    /\ subcommand = "none"
    /\ controller_launcher_class = <<>>
    /\ engine_launcher_class = <<>>
    /\ controller_launcher = NoLauncher
    /\ engine_launcher = NoLauncher
    /\ pid_file = {}
    /\ alive = {}
    /\ exit_status = {}
    /\ app = "idle"
    /\ started_launchers = {}
    /\ killed = {}

\* a connection file that does not exist
NoFile == [content |-> "absent", key |-> 0, run |-> 0]
\* no controller is run
ControllerIdle ==
    /\ reuse_files = FALSE
    /\ write_connection_files = TRUE
    /\ client_json_file = NoFile
    /\ engine_json_file = NoFile
    /\ run = 0
    /\ ctl = "idle"
    /\ Session_key = 0

\* no BroadcastView is used
BroadcastIdle ==
    /\ is_coalescing = FALSE
    /\ targets = {}
    /\ futures = {}
    /\ client_history = <<>>
    /\ client_outstanding = {}
    /\ view_history = <<>>
    /\ view_outstanding = {}
    /\ msg_count = 0
    /\ balanced_history = <<>>
    /\ balanced_outstanding = {}
    /\ failures = 0
    /\ last_call = "none"
    /\ in_sync_results = [v \in {"BroadcastView", "LoadBalancedView"} |-> FALSE]
    /\ syncs = 0

\* the flags of a new LoadBalancedView: targets = None, block = track =
\* False, follow = after = None, timeout = 0.0, retries = 0
DefaultFlags ==
    [targets |-> None, block |-> FALSE, track |-> FALSE, follow |-> None,
     after |-> None, timeout |-> 0, retries |-> 0]
\* no temp_flags block is used
TempIdle ==
    /\ view = DefaultFlags
    /\ saved_flags = <<>>
    /\ kwargs = NoFlag
    /\ left = "none"
    /\ temp_error = "none"
    /\ flag_changes = 0

\* no task scheduler is run
SchedulerIdle ==
    /\ tasks = <<>>
    /\ live = {}
    /\ load = <<>>
    /\ assignments = {}
    /\ replies = <<>>

\* no IPEngineApp is run
EngineIdle ==
    /\ url_file = [exists |-> FALSE, written |-> 0]
    /\ offset = 0
    /\ num_tries = 0
    /\ loaded_d = ""
    /\ elapsed = 0
    /\ eng = "idle"

\* no ipcluster loop is run
ShutdownIdle ==
    /\ ipcluster = <<>>
    /\ last_event = "idle"

Init ==
    /\ LauncherInit
    /\ TreeIdle
    /\ ScriptIdle
    /\ FlagsIdle
    /\ ClusterIdle
    /\ ControllerIdle
    /\ BroadcastIdle
    /\ TempIdle
    /\ SchedulerIdle
    /\ EngineIdle
    /\ ShutdownIdle

\* ------------------------------------------- BaseLauncher, on a "world"
\* The launcher fields that notify_stop and the observers it calls can
\* change, gathered in one record so that nested calls compose.
World == [state |-> state, stop_callbacks |-> stop_callbacks,
          start_data |-> start_data, stop_data |-> stop_data,
          launchers |-> launchers, set_stop_data |-> set_stop_data,
          invoked |-> invoked]

SetWorld(w) ==
    /\ state' = w.state
    /\ stop_callbacks' = w.stop_callbacks
    /\ start_data' = w.start_data
    /\ stop_data' = w.stop_data
    /\ launchers' = w.launchers
    /\ set_stop_data' = w.set_stop_data
    /\ invoked' = w.invoked

\* an observer registered by the application: the model records the call
UserCallback(w, l, c, data) ==
    [w EXCEPT !.invoked = Append(@, [l |-> l, cb |-> c, data |-> data,
                                     snap |-> w.set_stop_data])]

\* notify_start that forgets self.state = 'running'
notify_start_keeps_state(w, l, data) ==
    [w EXCEPT !.start_data[l] = data]

\* BaseLauncher.notify_start
notify_start(w, l, data) ==
    [w EXCEPT !.start_data[l] = data, !.state[l] = "running"]

\* the index the for loop of _notice_engine_stopped leaves in idx:
\* the first entry whose process has the pid, else the last entry
RECURSIVE FindIdx(_, _, _, _)
FindIdx(ls, proc, pid, k) ==
    IF k >= Len(ls) THEN ls[Len(ls)].idx
    ELSE IF proc[ls[k].el] = pid THEN ls[k].idx
    ELSE FindIdx(ls, proc, pid, k + 1)

\* dict.pop(idx)
DictPop(ls, idx) == SelectSeq(ls, LAMBDA e : e.idx # idx)

RECURSIVE DrainCallbacks(_, _, _, _, _)

\* pop(0) in place of pop()
PopIndexFirst(cbs) == 1

\* list.pop() in the loop of BaseLauncher.notify_stop: the position taken
PopIndex(cbs) == Len(cbs)
RemoveAt(cbs, i) == SubSeq(cbs, 1, i - 1) \o SubSeq(cbs, i + 1, Len(cbs))

\* notify_stop that keeps the first payload once the launcher is 'after'
notify_stop_keeps_first(w, proc, l, data) ==
    LET w1 == [w EXCEPT !.stop_data[l] = IF w.state[l] = "after" THEN @ ELSE data,
                        !.state[l] = "after"]
    IN  DrainCallbacks(w1, proc, l, data, Len(w1.stop_callbacks[l]))

\* notify_stop that forgets self.state = 'after'
notify_stop_keeps_state(w, proc, l, data) ==
    LET w1 == [w EXCEPT !.stop_data[l] = data]
    IN  DrainCallbacks(w1, proc, l, data, Len(w1.stop_callbacks[l]))

\* BaseLauncher.notify_stop
notify_stop(w, proc, l, data) ==
    LET w1 == [w EXCEPT !.stop_data[l] = data, !.state[l] = "after"]
    IN  DrainCallbacks(w1, proc, l, data, Len(w1.stop_callbacks[l]))

\* LocalEngineSetLauncher._notice_engine_stopped
notice_engine_stopped(w, proc, data) ==
    IF w.launchers # <<>>
    THEN LET idx == FindIdx(w.launchers, proc, data.b, 1)
         IN  [w EXCEPT !.launchers = DictPop(@, idx),
                       !.set_stop_data[idx] = data]
    ELSE notify_stop(w, proc, Top, w.stop_data[Top])

DrainCallbacks(w, proc, l, data, k) ==
    IF k = 0 THEN w
    ELSE LET cbs == w.stop_callbacks[l]
             d == cbs[PopIndex(cbs)]
             w1 == [w EXCEPT !.stop_callbacks[l] = RemoveAt(cbs, PopIndex(cbs))]
             w2 == IF d = NoticeCb
                   THEN notice_engine_stopped(w1, proc, data)
                   ELSE UserCallback(w1, l, d, data)
         IN  DrainCallbacks(w2, proc, l, data, k - 1)

\* on_stop that also keeps f when it calls it at once
on_stop_retains(w, l, f) ==
    IF w.state[l] = "after"
    THEN [UserCallback(w, l, f, w.stop_data[l])
             EXCEPT !.stop_callbacks[l] = Append(@, f)]
    ELSE [w EXCEPT !.stop_callbacks[l] = Append(@, f)]

\* BaseLauncher.on_stop
on_stop(w, l, f) ==
    IF w.state[l] = "after"
    THEN UserCallback(w, l, f, w.stop_data[l])
    ELSE [w EXCEPT !.stop_callbacks[l] = Append(@, f)]

\* a step that calls send_signal on no process
NoSignal == sent' = {}
\* an API call returns normally or raises
Returns == raised' = "none"
Raises(e) == raised' = e
\* the step is the call or the loop event o
Does(o) == op' = o

\* the application registers a fresh observer on the top-level launcher
OnStop ==
    /\ nextCb <= MaxOnStop
    /\ SetWorld(on_stop(World, Top, nextCb))
    /\ nextCb' = nextCb + 1
    /\ Returns
    /\ Does("on_stop")
    /\ NoSignal
    /\ UNCHANGED <<xvars, kind, py3, pvars, bvars, nextChild>>

\* a direct call of notify_start on a BaseLauncher
NotifyStart ==
    /\ kind = "base"
    /\ \E d \in 1..2 :
          SetWorld(notify_start(World, Top, Payload("data", d, 0)))
    /\ Returns
    /\ Does("notify_start")
    /\ NoSignal
    /\ UNCHANGED <<xvars, kind, py3, pvars, bvars, nextChild, nextCb>>

\* a direct call of notify_stop on a BaseLauncher
NotifyStop ==
    /\ kind = "base"
    /\ \E d \in 1..2 :
          /\ SetWorld(notify_stop(World, process, Top, Payload("data", d, 0)))
          /\ passed' = Payload("data", d, 0)
    /\ Returns
    /\ Does("notify_stop")
    /\ NoSignal
    /\ UNCHANGED <<xvars, kind, py3, pvars, job_id, submitted, nextChild, nextCb>>

\* ------------------------------------------------- LocalProcessLauncher
Sigs == {"INT", "KILL"}
FreshPid == 1 + Cardinality({l \in Ids : process[l] # NoPid})
PidData(pid) == Payload("pid", pid, 0)
\* dict(exit_code=status, pid=self.process.pid)
ExitData(code, pid) == Payload("exit", code, pid)
\* a payload that loses the exit status
ExitCodeLost(status) == 0

\* status = self.process.poll()
ExitCode(status) == IF status = "exit0" THEN 0 ELSE 1

\* signal without the test of self.state
signal_any_state(sigs, st, l, sig) == sigs \cup {[l |-> l, sig |-> sig]}

\* LocalProcessLauncher.signal: the send_signal calls it adds to the history
\* (on Windows a signal other than SIGINT is delivered by taskkill on the
\* process tree: the history records it as the delivery of sig)
signal(sigs, st, l, sig) ==
    IF st[l] = "running" THEN sigs \cup {[l |-> l, sig |-> sig]} ELSE sigs

\* start without the test of self.state
CanStartAlways(st) == TRUE

RECURSIVE SumTo(_, _)
SumTo(f, n) == IF n < 0 THEN 0 ELSE f[n] + SumTo(f, n - 1)
\* the timeouts of interrupt_then_kill pending in the loop
PendingKillers == SumTo(killers, MaxChildren)

\* LocalProcessLauncher.start: if self.state == 'before'
CanStart(st) == st = "before"

\* LocalProcessLauncher.start
LocalStart ==
    /\ kind = "local"
    /\ Does("start")
    /\ IF CanStart(state[Top])
       THEN \E spawned \in BOOLEAN :
              IF spawned
              THEN /\ process' = [process EXCEPT ![Top] = FreshPid]
                   /\ handlers' = [handlers EXCEPT ![Top] = {"stdout", "stderr"}]
                   /\ poller' = [poller EXCEPT ![Top] = TRUE]
                   /\ SetWorld(notify_start(World, Top, PidData(FreshPid)))
                   /\ Returns
                   /\ UNCHANGED killers
              ELSE /\ Raises("OSError")
                   /\ UNCHANGED <<lvars, pvars>>
       ELSE /\ Raises("ProcessStateError")
            /\ UNCHANGED <<lvars, pvars>>
    /\ NoSignal
    /\ UNCHANGED <<xvars, kind, py3, bvars, nextChild, nextCb>>

\* LocalProcessLauncher.stop, LocalProcessLauncher.interrupt_then_kill
LocalStop ==
    /\ kind = "local"
    /\ PendingKillers < MaxKillers
    /\ Does("stop")
    /\ sent' = signal({}, state, Top, "INT")
    /\ killers' = [killers EXCEPT ![Top] = @ + 1]
    /\ Returns
    /\ UNCHANGED <<xvars, kind, py3, lvars, process, poller, handlers, bvars,
                   nextChild, nextCb>>

\* LocalProcessLauncher.signal, called by the application
LocalSignal ==
    /\ kind = "local"
    /\ Does("signal")
    /\ \E sig \in Sigs : sent' = signal({}, state, Top, sig)
    /\ Returns
    /\ UNCHANGED <<xvars, kind, py3, lvars, process, poller, handlers, killers,
                   bvars, nextChild, nextCb>>

\* the timeout of interrupt_then_kill fires: lambda: self.signal(SIGKILL)
KillTimer(l) ==
    /\ killers[l] > 0
    /\ killers' = [killers EXCEPT ![l] = @ - 1]
    /\ sent' = signal({}, state, l, "KILL")
    /\ Does("killer")
    /\ UNCHANGED <<xvars, kind, py3, lvars, process, poller, handlers, bvars,
                   nextChild, raised, nextCb>>

\* what self.process.poll() can return: None, or the exit status
Statuses == {"none", "exit0", "exit1"}

\* poll that leaves the poller and the output handlers in the loop
PollBody_keeps_watching(l, status) ==
    IF status # "none"
    THEN /\ UNCHANGED <<poller, handlers>>
         /\ SetWorld(notify_stop(World, process, l,
                                 ExitData(ExitCode(status), process[l])))
         /\ Does(status)
    ELSE /\ UNCHANGED <<lvars, poller, handlers>>
         /\ Does("event")

\* LocalProcessLauncher.poll, when self.process.poll() returns status
PollBody(l, status) ==
    IF status # "none"
    THEN /\ poller' = [poller EXCEPT ![l] = FALSE]
         /\ handlers' = [handlers EXCEPT ![l] = {}]
         /\ SetWorld(notify_stop(World, process, l,
                                 ExitData(ExitCode(status), process[l])))
         /\ Does(status)
    ELSE /\ UNCHANGED <<lvars, poller, handlers>>
         /\ Does("event")

\* the PeriodicCallback calls poll
Poll(l) ==
    /\ poller[l]
    /\ \E status \in Statuses : PollBody(l, status)
    /\ NoSignal
    /\ UNCHANGED <<xvars, kind, py3, process, killers, bvars, nextChild, raised, nextCb>>

\* LocalProcessLauncher.handle_stdout, LocalProcessLauncher.handle_stderr
HandleOutput(l, fd) ==
    /\ fd \in handlers[l]
    /\ \E line \in {"text", ""} :
          IF line # ""
          THEN UNCHANGED <<lvars, poller, handlers>> /\ Does("event")
          ELSE \E status \in Statuses : PollBody(l, status)
    /\ NoSignal
    /\ UNCHANGED <<xvars, kind, py3, process, killers, bvars, nextChild, raised, nextCb>>

\* --------------------------------- BatchSystemLauncher, WindowsHPCLauncher
JobData(job) == Payload("job", job, 0)
\* dict(job_id=self.job_id, output=output)
StopData(job, output) == Payload("stop", job, output)
\* the texts the delete command can leave in output
OutDeleted == 0
OutError == 1
OutEmpty == 2
OutAlreadyStopped == 3

\* BatchSystemLauncher.start, WindowsHPCLauncher.start
BatchStart ==
    /\ kind \in {"batch", "winhpc"}
    /\ submitted < MaxJobs
    /\ Does("start")
    /\ \E outcome \in {"ok", "submit_fail", "no_job_id"} :
         CASE outcome = "ok" ->
                /\ submitted' = submitted + 1
                /\ job_id' = submitted + 1
                /\ SetWorld(notify_start(World, Top, JobData(submitted + 1)))
                /\ Returns
           [] outcome = "submit_fail" ->
                /\ Raises("CalledProcessError")
                /\ UNCHANGED <<lvars, job_id, submitted>>
           [] outcome = "no_job_id" ->
                /\ submitted' = submitted + 1
                /\ Raises("LauncherError")
                /\ UNCHANGED <<lvars, job_id>>
    /\ NoSignal
    /\ UNCHANGED <<xvars, kind, py3, pvars, nextChild, passed, nextCb>>

\* BatchSystemLauncher.stop, WindowsHPCLauncher.stop
BatchStop ==
    /\ kind \in {"batch", "winhpc"}
    /\ Does("stop")
    /\ IF job_id = 0
       THEN /\ Raises("AttributeError")
            /\ UNCHANGED <<lvars, passed>>
       ELSE \E outcome \in {"ok", "error_exit", "no_launch"} :
            LET output ==
                  IF outcome = "ok" THEN OutDeleted
                  ELSE IF kind = "winhpc" THEN OutAlreadyStopped
                  ELSE IF outcome = "error_exit" THEN OutError
                  ELSE OutEmpty
            IN  IF kind = "batch" /\ outcome = "no_launch" /\ py3
                THEN /\ Raises("AttributeError")
                     /\ UNCHANGED <<lvars, passed>>
                ELSE /\ SetWorld(notify_stop(World, process, Top,
                                             StopData(job_id, output)))
                     /\ passed' = StopData(job_id, output)
                     /\ Returns
    /\ NoSignal
    /\ UNCHANGED <<xvars, kind, py3, pvars, job_id, submitted, nextChild, nextCb>>

\* ------------------------------------------------ LocalEngineSetLauncher
\* self.launchers[i + 1] = el
DictSet_next_index(ls, i, el) ==
    Append(ls, [idx |-> i + 1, el |-> el])
\* self.launchers[i] = el
DictSet(ls, i, el) ==
    IF \E k \in 1..Len(ls) : ls[k].idx = i
    THEN [k \in 1..Len(ls) |-> IF ls[k].idx = i THEN [idx |-> i, el |-> el] ELSE ls[k]]
    ELSE Append(ls, [idx |-> i, el |-> el])

RECURSIVE DictSetAll(_, _, _)
\* the assignments self.launchers[i] = el for i = 0..m-1, el = first + i
DictSetAll(ls, first, m) ==
    IF m = 0 THEN ls
    ELSE DictSet(DictSetAll(ls, first, m - 1), m - 1, first + m - 1)

RECURSIVE SignalAll(_, _, _, _, _)
\* el.signal(sig) for each el in itervalues(self.launchers)
SignalAll(sigs, st, ls, sig, k) ==
    IF k > Len(ls) THEN sigs
    ELSE SignalAll(signal(sigs, st, ls[k].el, sig), st, ls, sig, k + 1)

Children(ls) == {ls[k].el : k \in 1..Len(ls)}

\* LocalEngineSetLauncher.start: m of the n engines are spawned, m < n when
\* Popen raises for engine m
SetStart ==
    /\ kind = "set"
    /\ Does("start")
    /\ \E n \in 1..(MaxChildren - nextChild + 1) : \E m \in 0..n :
         LET started == nextChild..(nextChild + m - 1)
             pidOf(c) == FreshPid + (c - nextChild)
             w1 == [World EXCEPT
                      !.stop_callbacks = [c \in Ids |->
                          IF c \in started THEN <<NoticeCb>> ELSE @[c]],
                      !.state = [c \in Ids |->
                          IF c \in started THEN "running" ELSE @[c]],
                      !.start_data = [c \in Ids |->
                          IF c \in started THEN PidData(pidOf(c)) ELSE @[c]],
                      !.launchers = DictSetAll(@, nextChild, m)]
         IN  /\ nextChild' = nextChild + m
             /\ process' = [c \in Ids |->
                               IF c \in started THEN pidOf(c) ELSE process[c]]
             /\ poller' = [c \in Ids |-> (c \in started) \/ poller[c]]
             /\ handlers' = [c \in Ids |->
                               IF c \in started THEN {"stdout", "stderr"}
                               ELSE handlers[c]]
             /\ IF m < n
                THEN /\ SetWorld(w1)
                     /\ Raises("OSError")
                ELSE /\ SetWorld(notify_start(w1, Top, Payload("dlist", n, 0)))
                     /\ Returns
    /\ NoSignal
    /\ UNCHANGED <<xvars, kind, py3, killers, bvars, nextCb>>

\* LocalEngineSetLauncher.stop, LocalEngineSetLauncher.interrupt_then_kill
SetStop ==
    /\ kind = "set"
    /\ PendingKillers + Len(launchers) <= MaxKillers
    /\ Does("stop")
    /\ sent' = SignalAll({}, state, launchers, "INT", 1)
    /\ killers' = [c \in Ids |->
                      IF c \in Children(launchers) THEN killers[c] + 1
                      ELSE killers[c]]
    /\ Returns
    /\ UNCHANGED <<xvars, kind, py3, lvars, process, poller, handlers, bvars,
                   nextChild, nextCb>>

\* LocalEngineSetLauncher.signal
SetSignal ==
    /\ kind = "set"
    /\ Does("signal")
    /\ \E sig \in Sigs : sent' = SignalAll({}, state, launchers, sig, 1)
    /\ Returns
    /\ UNCHANGED <<xvars, kind, py3, lvars, process, poller, handlers, killers,
                   bvars, nextChild, nextCb>>

Next ==
    \/ OnStop
    \/ NotifyStart
    \/ NotifyStop
    \/ LocalStart
    \/ LocalStop
    \/ LocalSignal
    \/ \E l \in Ids : KillTimer(l)
    \/ \E l \in Ids : Poll(l)
    \/ \E l \in Ids : \E fd \in {"stdout", "stderr"} : HandleOutput(l, fd)
    \/ BatchStart
    \/ BatchStop
    \/ SetStart
    \/ SetStop
    \/ SetSignal

Spec == Init /\ [][Next]_vars
\* ------------------------------------------------------------ properties
\* launchers that are LocalProcessLauncher instances
LocalIds == IF kind = "local" THEN {Top}
            ELSE IF kind = "set" THEN Ids \ {Top} ELSE {}
\* the observer calls made by the step
NewCalls == SubSeq(invoked', Len(invoked) + 1, Len(invoked'))
\* the observers registered on the top-level launcher and not yet called
Pending == {c \in 1..(nextCb - 1) : \A i \in 1..Len(invoked) : invoked[i].cb # c}
\* no observer was called twice
AtMostOnce(log) ==
    \A i, j \in 1..Len(log) : log[i].cb = log[j].cb => i = j
\* the step moves the top-level launcher to 'after'
TopStops == state[Top] # "after" /\ state'[Top] = "after"
\* the step is a call of start(), stop(), on_stop() on the top-level launcher
StartStep == op' = "start"
StopStep == op' = "stop"
OnStopStep == op' = "on_stop"

C2_Original ==
    [][/\ AtMostOnce(invoked')
       /\ TopStops =>
            /\ stop_callbacks'[Top] = <<>>
            /\ {NewCalls[i].cb : i \in 1..Len(NewCalls)} = Pending
            /\ \A i \in 1..Len(NewCalls) :
                  /\ NewCalls[i].l = Top
                  /\ NewCalls[i].data = stop_data'[Top]
            /\ \A i, j \in 1..Len(NewCalls) :
                  i < j => NewCalls[i].cb < NewCalls[j].cb]_vars

\* C2 (amended): as stated, but the observers are called in the reverse of
\* the order of their registration (observers are numbered as registered).
C2_Amended ==
    [][/\ AtMostOnce(invoked')
       /\ TopStops =>
            /\ stop_callbacks'[Top] = <<>>
            /\ {NewCalls[i].cb : i \in 1..Len(NewCalls)} = Pending
            /\ \A i \in 1..Len(NewCalls) :
                  /\ NewCalls[i].l = Top
                  /\ NewCalls[i].data = stop_data'[Top]
            /\ \A i, j \in 1..Len(NewCalls) :
                  i < j => NewCalls[i].cb > NewCalls[j].cb]_vars

\* two observers registered before the stop were called by notify_stop
C2_Witness ==
    /\ state[Top] = "after"
    /\ stop_callbacks[Top] = <<>>
    /\ Len(invoked) >= 2
    /\ invoked[1].cb > invoked[2].cb
    /\ invoked[1].data = stop_data[Top]

\* the engine launchers an engine set has started
Engines == 1..(nextChild - 1)

\* C3: once every engine of a started engine set has delivered its stop
\* notification, the active mapping is empty, the engine set is in 'after'
\* and each of its observers was called once with the collected mapping.
C3_Claim ==
    (/\ kind = "set"
     /\ Engines # {}
     /\ start_data[Top].tag = "dlist"
     /\ \A c \in Engines : state[c] = "after")
    => /\ launchers = <<>>
       /\ state[Top] = "after"
       /\ \A c \in 1..(nextCb - 1) :
             \E i \in 1..Len(invoked) :
                /\ invoked[i].cb = c
                /\ invoked[i].snap = set_stop_data
                /\ \A j \in 1..Len(invoked) : invoked[j].cb = c => j = i

\* C4: LocalProcessLauncher.start() from 'before' spawns one process and
\* leaves the launcher 'running' with the pid as start payload; from
\* 'running' or 'after' it raises ProcessStateError, spawns nothing and
\* leaves the state, the process handle and the stop callbacks unchanged.
\* (A start() whose Popen fails raises OSError and is not the claim's case.)
C4_StartContract ==
    [][(kind = "local" /\ StartStep) =>
         IF state[Top] = "before"
         THEN /\ raised' # "ProcessStateError"
              /\ raised' = "none" =>
                   /\ state'[Top] = "running"
                   /\ process[Top] = NoPid
                   /\ process'[Top] \in Pids
                   /\ start_data'[Top] = PidData(process'[Top])
         ELSE /\ raised' = "ProcessStateError"
              /\ state' = state
              /\ process' = process
              /\ stop_callbacks' = stop_callbacks]_vars

\* start() was refused on a running launcher that has observers registered
C4_Witness ==
    /\ kind = "local"
    /\ raised = "ProcessStateError"
    /\ state[Top] = "running"
    /\ stop_callbacks[Top] # <<>>
    /\ op = "start"

BatchKinds == {"batch", "winhpc"}
BatchStartStep == kind \in BatchKinds /\ StartStep

LocalExitObserved == kind = "local" /\ poller[Top] /\ ~poller'[Top]
\* start() of a batch launcher fails to submit or to parse a job id
BatchSubmitFailed ==
    BatchStartStep /\ raised' \in {"CalledProcessError", "LauncherError"}
\* the step calls the pending observers, and no other, with the payload
NotifiesWith(data) ==
    /\ {NewCalls[i].cb : i \in 1..Len(NewCalls)} = Pending
    /\ \A i \in 1..Len(NewCalls) : NewCalls[i].data = data /\ NewCalls[i].l = Top

\* C6 (as stated): a local process that exits with a non-zero code, a failed
\* submit command and an unparseable job id each end with the launcher in
\* 'after' and its observers called with a payload describing the failure.
C6_Original ==
    [][/\ (LocalExitObserved /\ op' = "exit1") =>
             /\ state'[Top] = "after"
             /\ stop_data'[Top] = ExitData(1, process[Top])
             /\ NotifiesWith(ExitData(1, process[Top]))
       /\ BatchSubmitFailed =>
             /\ state'[Top] = "after"
             /\ stop_data'[Top] # NoData
             /\ NotifiesWith(stop_data'[Top])]_vars

\* C6 (amended): a local process that exits with a non-zero code ends, when
\* the exit is polled, with the launcher in 'after' and its observers called
\* with {exit_code, pid}; a failed submit command or an unparseable job id
\* makes start() raise, leaves state and stop payload unchanged and calls
\* no observer.
C6_Amended ==
    [][/\ (LocalExitObserved /\ op' = "exit1") =>
             /\ state'[Top] = "after"
             /\ stop_data'[Top] = ExitData(1, process[Top])
             /\ NotifiesWith(ExitData(1, process[Top]))
       /\ BatchSubmitFailed =>
             /\ state' = state
             /\ stop_data' = stop_data
             /\ stop_callbacks' = stop_callbacks
             /\ invoked' = invoked]_vars

\* a submit failure on a batch launcher that has an observer registered
C6_Witness ==
    /\ kind \in BatchKinds
    /\ raised \in {"CalledProcessError", "LauncherError"}
    /\ state[Top] = "before"
    /\ stop_callbacks[Top] # <<>>
    /\ invoked = <<>>

\* C7: on_stop(f) on a launcher in 'after' calls f at once, exactly once,
\* with the stored stop payload and does not keep f: no later notify_stop
\* or on_stop calls f again.
C7_OnStopAfter ==
    [][/\ AtMostOnce(invoked')
       /\ (OnStopStep /\ state[Top] = "after") =>
             /\ invoked' = Append(invoked, [l |-> Top, cb |-> nextCb,
                                            data |-> stop_data[Top],
                                            snap |-> set_stop_data])
             /\ stop_callbacks' = stop_callbacks
             /\ state' = state
             /\ stop_data' = stop_data]_vars

\* f and then g were called by two notify_stop / on_stop rounds
C7_Witness ==
    /\ kind = "base"
    /\ state[Top] = "after"
    /\ Len(invoked) = 2
    /\ invoked[1].cb = 1 /\ invoked[1].data.a = 1
    /\ invoked[2].cb = 2 /\ invoked[2].data.a = 2
    /\ start_data[Top] = NoData
    /\ stop_callbacks[Top] = <<>>

\* a notify_stop call that finds the top-level launcher in 'after'
LaterNotifyStop ==
    /\ state[Top] = "after"
    /\ \/ kind = "base" /\ op' = "notify_stop"
       \/ kind \in BatchKinds /\ StopStep /\ raised' = "none"

\* C8 (as stated): a later notify_stop on a launcher in 'after' is a no-op:
\* it calls no callback and leaves state and stored stop payload unchanged.
C8_Original ==
    [][LaterNotifyStop =>
          /\ invoked' = invoked
          /\ state' = state
          /\ stop_data' = stop_data]_vars

\* C8 (amended): a later notify_stop on a launcher in 'after' calls no
\* callback and leaves the state 'after', but replaces the stored stop
\* payload by the data of the later call.
C8_Amended ==
    [][LaterNotifyStop =>
          /\ invoked' = invoked
          /\ state' = state
          /\ stop_callbacks' = stop_callbacks
          /\ stop_data'[Top] = passed']_vars

\* the observer saw the first payload, a second notify_stop stored another
C8_Witness ==
    /\ kind = "base"
    /\ state[Top] = "after"
    /\ start_data[Top] = NoData
    /\ Len(invoked) = 1
    /\ invoked[1].data # stop_data[Top]
    /\ stop_data[Top] = passed

\* C9: stop() of a local process launcher sends the interrupt at once, only
\* if the launcher is running, and schedules one kill; when a kill timer
\* fires the kill signal is sent if and only if the launcher is still
\* 'running'; a launcher that is not 'running' never signals its process.
C9_InterruptThenKill ==
    [][/\ (kind = "local" /\ StopStep) =>
             /\ sent' = IF state[Top] = "running"
                        THEN {[l |-> Top, sig |-> "INT"]} ELSE {}
             /\ killers' = [killers EXCEPT ![Top] = @ + 1]
             /\ state' = state
       /\ \A l \in Ids : (op' = "killer" /\ killers'[l] # killers[l]) =>
             sent' = IF state[l] = "running"
                     THEN {[l |-> l, sig |-> "KILL"]} ELSE {}
       /\ \A s \in sent' : state[s.l] = "running"]_vars

\* a kill timer fired after the stop notification and sent nothing
C9_Witness ==
    /\ kind = "local"
    /\ state[Top] = "after"
    /\ op = "killer"
    /\ sent = {}

SignalStep == op' = "signal"

\* C11: signal(sig) on a local process launcher (also on each engine launcher
\* an engine set fans the signal out to) delivers sig to the process if and
\* only if the launcher is 'running'; on a launcher in 'before' or 'after' it
\* delivers nothing and raises nothing, and it never changes a launcher state.
C11_SignalOnlyRunning ==
    [][SignalStep =>
          /\ \A s \in sent' : s.l \in LocalIds /\ state[s.l] = "running"
          /\ (kind = "local" /\ state[Top] = "running") =>
                \E sig \in Sigs : sent' = {[l |-> Top, sig |-> sig]}
          /\ (kind = "local" /\ state[Top] # "running") =>
                sent' = {} /\ raised' = "none"
          /\ state' = state
          /\ process' = process]_vars

\* signal() was called on a local launcher whose process had already stopped
C11_Witness ==
    /\ kind = "local"
    /\ op = "signal"
    /\ state[Top] = "after"
    /\ process[Top] # NoPid
    /\ sent = {}
    /\ raised = "none"

\* ------------------------------------------- broadcast scheduler tree
\* IPControllerApp.launch_broadcast_schedulers, one step per scheduler launched
RECURSIVE Pow2(_)
Pow2(k) == IF k = 0 THEN 1 ELSE 2 * Pow2(k - 1)

\* the factory's counts of a complete binary tree of depth D
number_of_leaf_schedulers(D) == Pow2(D)
number_of_non_leaf_schedulers(D) == Pow2(D) - 1

\* factory.client_url(port_name, index), factory.engine_url(port_name, index):
\* the url of the index-th port of that side
client_url(index) == [side |-> "client", index |-> index]
engine_url(index) == [side |-> "engine", index |-> index]

\* outgoing_id1 that forgets the + 1
outgoing_id1_same_level(identity) == identity * 2

\* outgoing_id1 = identity * 2 + 1
outgoing_id1(identity) == identity * 2 + 1
\* outgoing_id2 that forgets the + 1
outgoing_id2_same(identity) == outgoing_id1(identity)
\* outgoing_id2 = outgoing_id1 + 1
outgoing_id2(identity) == outgoing_id1(identity) + 1

\* a leaf offset that subtracts the number of leaves
leaf_engine_index_by_leaves(identity, D) ==
    identity - number_of_leaf_schedulers(D)

\* identity - factory.number_of_non_leaf_schedulers
leaf_engine_index(identity, D) ==
    identity - number_of_non_leaf_schedulers(D)

\* the scheduler_args dict of recursively_start_schedulers(identity, depth)
scheduler_args(identity, depth) ==
    LET is_leaf == depth = broadcast_scheduler_depth
    IN  [in_addr |-> client_url(identity),
         identity |-> identity,
         outgoing_ids |-> <<outgoing_id1(identity), outgoing_id2(identity)>>,
         depth |-> depth,
         is_leaf |-> is_leaf,
         out_addrs |->
            IF is_leaf
            THEN <<engine_url(leaf_engine_index(identity,
                                                broadcast_scheduler_depth))>>
            ELSE <<client_url(outgoing_id1(identity)),
                   client_url(outgoing_id2(identity))>>,
         in_thread |-> ~mq_process]

\* the engine-side broadcast addresses the factory hands to engines
EngineAddrs == 0..(number_of_leaf_schedulers(broadcast_scheduler_depth) - 1)

TreeInit ==
    /\ broadcast_scheduler_depth \in 0..MaxDepth
    /\ mq_process \in BOOLEAN
    /\ calls = <<>>
    /\ schedulers = <<>>
    /\ \E N \in 0..MaxEngines : engines \in [1..N -> EngineAddrs]

\* launch_broadcast_schedulers: recursively_start_schedulers(0, 0)
LaunchBroadcastSchedulers ==
    /\ calls = <<>>
    /\ schedulers = <<>>
    /\ calls' = <<[identity |-> 0, depth |-> 0]>>
    /\ UNCHANGED <<NotTree, broadcast_scheduler_depth, mq_process,
                   schedulers, engines>>

\* the body of recursively_start_schedulers for the innermost pending call:
\* launch_in_thread_or_process, then the two recursive calls of a non-leaf
RecursivelyStartSchedulers ==
    /\ calls # <<>>
    /\ LET identity == Head(calls).identity
           depth == Head(calls).depth
           args == scheduler_args(identity, depth)
       IN  /\ schedulers' = Append(schedulers, args)
           /\ calls' = IF args.is_leaf THEN Tail(calls)
                       ELSE <<[identity |-> args.outgoing_ids[1],
                               depth |-> depth + 1],
                              [identity |-> args.outgoing_ids[2],
                               depth |-> depth + 1]>> \o Tail(calls)
    /\ UNCHANGED <<NotTree, broadcast_scheduler_depth, mq_process, engines>>

InitTree ==
    /\ LauncherInit
    /\ kind = "base"
    /\ TreeInit
    /\ ScriptIdle
    /\ FlagsIdle
    /\ ClusterIdle
    /\ ControllerIdle
    /\ BroadcastIdle
    /\ TempIdle
    /\ SchedulerIdle
    /\ EngineIdle
    /\ ShutdownIdle

NextTree ==
    \/ LaunchBroadcastSchedulers
    \/ RecursivelyStartSchedulers

SpecTree == InitTree /\ [][NextTree]_vars

\* launch_broadcast_schedulers has returned
TreeLaunched == calls = <<>> /\ schedulers # <<>>
Nodes == {schedulers[k] : k \in 1..Len(schedulers)}
Leaves == {s \in Nodes : s.is_leaf}
AddrsOf(s) == {s.out_addrs[k] : k \in 1..Len(s.out_addrs)}
\* the schedulers whose outgoing list holds the address
ParentsOf(addr) == {p \in Nodes : addr \in AddrsOf(p)}

\* C12: in the launched tree for depth D >= 0 the root has identity 0; every
\* node at depth < D is a non-leaf whose outgoing addresses are exactly the
\* inbound addresses of the launched nodes 2i+1 and 2i+2; every node at depth
\* D is a leaf; the inbound address of every non-root node is in the outgoing
\* list of exactly one node, its parent.
C12_TreeShape ==
    TreeLaunched =>
       /\ \A j, k \in 1..Len(schedulers) :
             schedulers[j].identity = schedulers[k].identity => j = k
       /\ {s.identity : s \in {n \in Nodes : n.depth = 0}} = {0}
       /\ \A s \in Nodes :
             /\ s.depth \in 0..broadcast_scheduler_depth
             /\ s.is_leaf <=> s.depth = broadcast_scheduler_depth
             /\ s.depth < broadcast_scheduler_depth =>
                  \E c1, c2 \in Nodes :
                     /\ c1.identity = 2 * s.identity + 1
                     /\ c2.identity = 2 * s.identity + 2
                     /\ c1.depth = s.depth + 1 /\ c2.depth = s.depth + 1
                     /\ s.out_addrs = <<c1.in_addr, c2.in_addr>>
             /\ s.identity # 0 =>
                  \E p \in Nodes :
                     /\ ParentsOf(s.in_addr) = {p}
                     /\ s.identity \in {2 * p.identity + 1, 2 * p.identity + 2}

\* a tree of depth 2 is launched: seven schedulers, four of them leaves
C12_Witness ==
    /\ TreeLaunched
    /\ broadcast_scheduler_depth = 2
    /\ Len(schedulers) = 7
    /\ Cardinality(Leaves) = 4

\* the engine-side address indices of the leaves
LeafIndices == {s.out_addrs[1].index : s \in Leaves}

\* C13: in the launched tree the engine-side outgoing addresses of the leaves
\* (leaf identity minus the number of non-leaf schedulers) are pairwise
\* distinct and contiguous from 0, so every engine-side broadcast address,
\* and so every engine 0..N-1 attached to one, is served by exactly one leaf.
C13_LeafCover ==
    TreeLaunched =>
       /\ \A s \in Leaves :
             /\ Len(s.out_addrs) = 1
             /\ s.out_addrs[1].side = "engine"
       /\ \A s, t \in Leaves : s.out_addrs = t.out_addrs => s = t
       /\ LeafIndices = 0..(Cardinality(Leaves) - 1)
       /\ \A e \in 1..Len(engines) :
             Cardinality(ParentsOf(engine_url(engines[e]))) = 1

\* two engines attached to different leaves of a launched tree of depth 2
C13_Witness ==
    /\ TreeLaunched
    /\ broadcast_scheduler_depth = 2
    /\ Len(engines) = 2
    /\ engines[1] # engines[2]
    /\ Cardinality(Leaves) = 4

\* --------------------------------------- BatchSystemLauncher batch script
Backends == {"PBS", "SGE", "LSF", "Slurm"}
Roles == {"Controller", "EngineSet"}
\* the keys of _context_default
MinKeys == {"n", "queue", "profile_dir", "cluster_id"}
\* the traits SlurmLauncher observes into the context
ExtKeys == {"account", "qos", "timelimit", "options"}
EmptyNs == [k \in {} |-> ""]

\* a line of a template: the directive it is and the {keys} it contains
Line(text, keys) == [text |-> text, keys |-> keys]
\* queue_template, job_array_template and the Slurm option templates
queue_template == Line("queue", {"queue"})
job_array_template == Line("jobarray", {"n"})
account_template == Line("account", {"account"})
qos_template == Line("qos", {"qos"})
timelimit_template == Line("timelimit", {"timelimit"})
\* the last line of every default template: the ipcontroller/ipengine command
CommandLine == Line("command", {"profile_dir", "cluster_id"})

\* default_template of the launcher class
default_template(b, r) ==
    CASE b = "PBS" ->
           <<Line("#!/bin/sh", {}), Line("#PBS -V", {}), Line("#PBS -N", {}),
             CommandLine>>
      [] b = "SGE" ->
           <<Line("#$ -V", {}), Line("#$ -S /bin/sh", {}), Line("#$ -N", {}),
             CommandLine>>
      [] b = "LSF" /\ r = "Controller" ->
           <<Line("#!/bin/sh", {}), Line("#BSUB -J", {}), Line("#BSUB -oo", {}),
             Line("#BSUB -eo", {}), CommandLine>>
      [] b = "LSF" /\ r = "EngineSet" ->
           <<Line("#!/bin/sh", {}), Line("#BSUB -oo", {}),
             Line("#BSUB -eo", {}), CommandLine>>
      [] b = "Slurm" /\ r = "Controller" ->
           <<Line("#!/bin/sh", {}), Line("#SBATCH --job-name", {"cluster_id"}),
             Line("jobarray", {}), CommandLine>>
      [] b = "Slurm" /\ r = "EngineSet" ->
           <<Line("#!/bin/sh", {}), Line("#SBATCH --job-name", {"cluster_id"}),
             CommandLine>>

\* templates a user configures: none, one without and one with a queue line
UserTemplates ==
    {<<>>,
     <<Line("#!/bin/sh", {}), CommandLine>>,
     <<Line("#!/bin/sh", {}), Line("queue", {}), CommandLine>>}
\* contents of the file batch_template_file names, <<>> when it names none
TemplateFiles == {<<>>, <<Line("#!/bin/sh", {}), Line("#from file", {}), CommandLine>>}
\* the namespace trait a user configures
Namespaces == {EmptyNs, [wall_time |-> "1h"], [queue |-> "long"]}

\* the traits a launcher of the backend has, and the values given to them
TraitNames(b) == IF b = "Slurm" THEN MinKeys \cup ExtKeys ELSE MinKeys
Values(name) == IF name = "n" THEN 1..MaxN
                ELSE IF name = "queue" THEN {"", "gpu"}
                ELSE {"", "v"}
\* the class defaults of the traits
DefaultTraits(b) == [k \in TraitNames(b) |-> IF k = "n" THEN 1 ELSE ""]

\* dict.update
DictUpdate(d, e) ==
    [k \in DOMAIN d \cup DOMAIN e |-> IF k \in DOMAIN e THEN e[k] ELSE d[k]]

\* an observer that replaces the context by the changed entry
update_context_replaces(ctx, name, new) == [k \in {name} |-> new]

\* BatchSystemLauncher._update_context: self.context[name] = new
update_context(ctx, name, new) ==
    [k \in DOMAIN ctx \cup {name} |-> IF k = name THEN new ELSE ctx[k]]

\* regexp.search(self.batch_template) of the directive's regexp
Search(directive, template) ==
    \E i \in 1..Len(template) : template[i].text = directive

\* an insertion at the end of the template
InsertAtEnd(template, line) == Append(template, line)

\* firstline, rest = template.split('\n', 1); '\n'.join([firstline, line, rest])
InsertAfterFirst(template, line) ==
    <<template[1], line>> \o Tail(template)

InsertIf(cond, directive, line, template) ==
    IF cond /\ ~Search(directive, template)
    THEN InsertAfterFirst(template, line) ELSE template

\* BatchSystemLauncher._insert_options_in_script and SlurmLauncher's override
insert_options_in_script(b, tr, template) ==
    LET t1 == InsertIf(tr.queue # "", "queue", queue_template, template)
    IN  IF b # "Slurm" THEN t1
        ELSE LET t2 == InsertIf(tr.account # "", "account", account_template, t1)
                 t3 == InsertIf(tr.qos # "", "qos", qos_template, t2)
             IN  InsertIf(tr.timelimit # "", "timelimit", timelimit_template, t3)

\* BatchSystemLauncher._insert_job_array_in_script
insert_job_array_in_script(template) ==
    InsertIf(TRUE, "jobarray", job_array_template, template)

\* self.formatter.format(self.batch_template, **ns)
CanFormat(template, names) ==
    \A i \in 1..Len(template) : template[i].keys \subseteq DOMAIN names
Format(template, names) ==
    [i \in 1..Len(template) |->
        [text |-> template[i].text,
         vals |-> [k \in template[i].keys |-> names[k]]]]

ScriptInit ==
    /\ backend \in Backends
    /\ role \in Roles
    /\ traits = DefaultTraits(backend)
    /\ context = [k \in MinKeys |-> IF k = "n" THEN 1 ELSE ""]
    /\ namespace \in Namespaces
    /\ batch_template \in UserTemplates
    /\ batch_template_file \in TemplateFiles
    /\ batch_file = <<>>
    /\ ns = EmptyNs
    /\ changes = 0

\* a trait of the launcher is given another value: its observer runs
\* (an assignment of the value the trait already has notifies no observer)
SetTrait ==
    /\ changes < MaxChanges
    /\ changes' = changes + 1
    /\ \E name \in TraitNames(backend) : \E v \in Values(name) \ {traits[name]} :
          /\ traits' = [traits EXCEPT ![name] = v]
          /\ context' = update_context(context, name, v)
    /\ batch_file' = <<>>
    /\ ns' = EmptyNs
    /\ UNCHANGED <<NotScript, backend, role, namespace, batch_template,
                   batch_template_file>>

\* BatchSystemLauncher.write_batch_script(n)
WriteBatchScript ==
    /\ \E n \in (IF role = "Controller" THEN {1} ELSE 1..MaxN) :
         LET tr == [traits EXCEPT !["n"] = n]
             ctx == IF n # traits["n"]
                    THEN update_context(context, "n", n) ELSE context
             t1 == IF batch_template_file # <<>> /\ batch_template = <<>>
                   THEN batch_template_file ELSE batch_template
             t2 == IF t1 = <<>>
                   THEN insert_job_array_in_script(
                          insert_options_in_script(backend, tr,
                              default_template(backend, role)))
                   ELSE t1
             names == DictUpdate(ctx, namespace)
         IN  /\ traits' = tr
             /\ context' = ctx
             /\ batch_template' = t2
             /\ ns' = names
             /\ batch_file' = IF CanFormat(t2, names) THEN Format(t2, names)
                              ELSE <<>>
    /\ UNCHANGED <<NotScript, backend, role, namespace, batch_template_file,
                   changes>>

InitScript ==
    /\ LauncherInit
    /\ kind = "base"
    /\ TreeIdle
    /\ ScriptInit
    /\ FlagsIdle
    /\ ClusterIdle
    /\ ControllerIdle
    /\ BroadcastIdle
    /\ TempIdle
    /\ SchedulerIdle
    /\ EngineIdle
    /\ ShutdownIdle

NextScript ==
    \/ SetTrait
    \/ WriteBatchScript

SpecScript == InitScript /\ [][NextScript]_vars

\* the step is a write_batch_script call that wrote the script
WriteStep == batch_file' # <<>>
\* the lines of a script that are queue directives
QueueLines(script) == {i \in 1..Len(script) : script[i].text = "queue"}
\* the template a write_batch_script call starts from
TemplateUsed ==
    IF batch_template # <<>> THEN batch_template
    ELSE IF batch_template_file # <<>> THEN batch_template_file
    ELSE default_template(backend, role)
\* the directives put in front of the queue directive after its insertion
InsertedLater ==
    (IF Search("jobarray", default_template(backend, role)) THEN 0 ELSE 1)
    + (IF backend = "Slurm"
       THEN Cardinality({k \in {"account", "qos", "timelimit"} : traits[k] # ""})
       ELSE 0)

\* C14 (as stated): a batch launcher with a non-empty queue and a template
\* that contains no queue directive writes a script in which the queue
\* directive appears exactly once, on the line after the first line; repeated
\* calls never make it appear twice.
C14_Original ==
    [][(WriteStep /\ traits.queue # "") =>
          /\ Cardinality(QueueLines(batch_file')) <= 1
          /\ ~Search("queue", TemplateUsed) => QueueLines(batch_file') = {2}]_vars

\* C14 (amended): only the default template, used when neither batch_template
\* nor batch_template_file is set at the first write_batch_script call, gets
\* the queue directive, if the queue is non-empty at that call: it is put
\* right after the first line, and the job-array directive and the Slurm
\* account, qos and time directives inserted after it come between the first
\* line and it. A template of the user, or one left by an earlier call, is
\* formatted as it is, so no directive is inserted a second time and none is
\* inserted into a user's template.
C14_Amended ==
    [][WriteStep =>
          /\ batch_file' = Format(batch_template', ns')
          /\ batch_template # <<>> => batch_template' = batch_template
          /\ (batch_template = <<>> /\ batch_template_file # <<>>) =>
                batch_template' = batch_template_file
          /\ (batch_template = <<>> /\ batch_template_file = <<>>) =>
                /\ batch_template'[1] = default_template(backend, role)[1]
                /\ QueueLines(batch_file') =
                      IF traits.queue # "" THEN {2 + InsertedLater} ELSE {}
                /\ \A i \in QueueLines(batch_file') :
                      batch_file'[i].vals = [queue |-> ns'.queue]
          /\ Cardinality(QueueLines(batch_file')) <= 1]_vars

\* a PBS launcher wrote its default script with the queue, the queue was then
\* cleared and the script written again: the directive is there once, on
\* line 3, now with the empty queue
C14_Witness ==
    /\ backend = "PBS"
    /\ batch_file # <<>>
    /\ traits.queue = ""
    /\ QueueLines(batch_file) = {3}
    /\ batch_file[3].vals = [queue |-> ""]
    /\ batch_file[2].text = "jobarray"

\* the context binds the minimum keys to the traits; extension keys add to it
ContextInSync ==
    /\ MinKeys \subseteq DOMAIN context
    /\ DOMAIN context \subseteq TraitNames(backend)
    /\ \A k \in DOMAIN context : context[k] = traits[k]

\* C15 (as stated): at every write_batch_script call the substitution
\* namespace has the four minimum keys, each bound to the launcher's current
\* value of the trait, n being the n passed; extension keys only add entries.
C15_Original ==
    [][WriteStep =>
          /\ MinKeys \subseteq DOMAIN ns'
          /\ \A k \in MinKeys : ns'[k] = traits'[k]]_vars

\* C15 (amended): the context always has the four minimum keys, each bound to
\* the launcher's current value of the trait, and the Slurm extension keys
\* only add entries to it; at every write_batch_script call the substitution
\* namespace has every key of the context and of the user's namespace trait,
\* and binds a minimum key to the launcher's current value unless the user's
\* namespace defines that key, whose value then takes its place.
C15_Amended ==
    [][/\ ContextInSync'
       /\ WriteStep =>
             /\ DOMAIN ns' = DOMAIN context' \cup DOMAIN namespace
             /\ \A k \in DOMAIN ns' :
                   ns'[k] = IF k \in DOMAIN namespace THEN namespace[k]
                            ELSE traits'[k]
             /\ \E n \in 1..MaxN : traits' = [traits EXCEPT !["n"] = n]]_vars

\* a Slurm launcher with queue and account set wrote its script for n = 2
\* under a user namespace that defines queue
C15_Witness ==
    /\ backend = "Slurm"
    /\ batch_file # <<>>
    /\ namespace = [queue |-> "long"]
    /\ traits.queue = "gpu"
    /\ ns.queue = "long"
    /\ ns.n = 2
    /\ "account" \in DOMAIN ns
    /\ ns.account = "v"

\* ------------------------------------------- LoadBalancedView: the flags
\* a Python value passed as a flag: its type, for a collection the type of
\* its elements, whether float() accepts it and the number it then gives
Value(type, elems, num, val) ==
    [type |-> type, elems |-> elems, num |-> num, val |-> val]
\* the values given for follow and after
Dependencies ==
    {None, Value("str", "", FALSE, 0), Value("list", "str", FALSE, 0),
     Value("list", "int", FALSE, 0), Value("int", "", TRUE, 5)}
\* the values given for timeout: None, 1, -1, 2.0, "5", "soon"
Timeouts ==
    {None, Value("int", "", TRUE, 1), Value("int", "", TRUE, -1),
     Value("float", "", TRUE, 2), Value("str", "", TRUE, 5),
     Value("str", "", FALSE, 0)}
\* the values given for retries: None, 2, "2"
Retries == {None, Value("int", "", TRUE, 2), Value("str", "", TRUE, 2)}
FlagValues(name) ==
    IF name \in {"follow", "after"} THEN Dependencies
    ELSE IF name = "timeout" THEN Timeouts ELSE Retries

\* LoadBalancedView._validate_dependency
validate_dependency(dep) ==
    \/ dep.type \in {"NoneType", "str", "AsyncResult", "Dependency"}
    \/ dep.type \in {"list", "set", "tuple"} /\ dep.elems \in {"", "str", "AsyncResult"}

\* list(Dependency(dep)) of _render_dependency raises TypeError on a value
\* that is no id, result or collection of them
Renders(dep) == validate_dependency(dep)

\* the timeout tests of set_flags: the type, then the sign
TimeoutError(t) ==
    IF t.type \notin {"int", "float", "NoneType"} THEN "TypeError"
    ELSE IF t.type # "NoneType" /\ t.val < 0 THEN "ValueError"
    ELSE "none"

FlagsInit ==
    /\ task_scheme \in {"leastload", "pure"}
    /\ after = None
    /\ follow = None
    /\ timeout = 0
    /\ retries = 0
    /\ flag = NoFlag
    /\ request = NoRequest
    /\ error = "none"
    /\ call = NoCall

\* LoadBalancedView.set_flags(name=value): View.set_flags assigns the trait
\* (Any takes every value, CFloat casts with float(), Integer takes an int),
\* then the dependency and the timeout are validated
SetFlags ==
    /\ \E name \in {"follow", "after", "timeout", "retries"} :
       \E value \in FlagValues(name) :
          /\ flag' = [name |-> name, value |-> value]
          /\ CASE name = "follow" ->
                    /\ follow' = value
                    /\ error' = IF validate_dependency(value) THEN "none"
                                ELSE "ValueError"
                    /\ UNCHANGED <<after, timeout, retries>>
               [] name = "after" ->
                    /\ after' = value
                    /\ error' = IF validate_dependency(value) THEN "none"
                                ELSE "ValueError"
                    /\ UNCHANGED <<follow, timeout, retries>>
               [] name = "timeout" ->
                    IF ~value.num
                    THEN /\ error' = "TraitError"
                         /\ UNCHANGED <<after, follow, timeout, retries>>
                    ELSE /\ timeout' = value.val
                         /\ error' = TimeoutError(value)
                         /\ UNCHANGED <<after, follow, retries>>
               [] name = "retries" ->
                    IF value.type # "int"
                    THEN /\ error' = "TraitError"
                         /\ UNCHANGED <<after, follow, timeout, retries>>
                    ELSE /\ retries' = value.val
                         /\ error' = "none"
                         /\ UNCHANGED <<after, follow, timeout>>
    /\ request' = NoRequest
    /\ call' = NoCall
    /\ UNCHANGED <<NotFlags, task_scheme>>

\* the values given for a flag in an apply call; targets as a list of ids
CallValues(name) ==
    IF name = "targets" THEN {Value("list", "int", FALSE, 0)}
    ELSE IF name = "retries" THEN Retries \cup {Value("int", "", TRUE, 0)}
    ELSE FlagValues(name)
\* bool(value) of Python
Truthy(value) ==
    /\ value.type # "NoneType"
    /\ ~(value.type \in {"int", "float"} /\ value.val = 0)

\* LoadBalancedView._really_apply(f, name=value); apply(f) passes no flag.
\* The pure scheme tests the arguments of the call, then each argument
\* that is None takes the flag of the view.
Apply ==
    /\ flag' = NoFlag
    /\ \E given \in {NoFlag} \cup
                     UNION {{[name |-> n, value |-> v] : v \in CallValues(n)} :
                            n \in {"follow", "after", "timeout", "retries",
                                   "targets"}} :
       /\ call' = [applied |-> TRUE, name |-> given.name,
                   value |-> given.value]
       /\ LET passed_(n) == given.name = n /\ given.value # None
              after_ == IF passed_("after") THEN given.value ELSE after
              follow_ == IF passed_("follow") THEN given.value ELSE follow
              \* isinstance(retries, int)
              retries_ok == passed_("retries") => given.value.type = "int"
              retries_ == IF passed_("retries") /\ retries_ok
                          THEN given.value.val ELSE retries
              \* the timeout of the call is sent as given; the model keeps
              \* the number float() gives for it, 0 for a string without one
              timeout_ == IF passed_("timeout") THEN given.value.val
                          ELSE timeout
          IN  IF task_scheme = "pure" /\ Truthy(given.value)
              THEN error' = "RuntimeError" /\ request' = NoRequest
              ELSE IF ~retries_ok
              THEN error' = "TypeError" /\ request' = NoRequest
              ELSE IF ~Renders(after_) \/ ~Renders(follow_)
              THEN error' = "TypeError" /\ request' = NoRequest
              ELSE /\ error' = "none"
                   /\ request' = [sent |-> TRUE, after |-> after_,
                                  follow |-> follow_, timeout |-> timeout_,
                                  retries |-> retries_]
    /\ UNCHANGED <<NotFlags, task_scheme, after, follow, timeout, retries>>

InitFlags ==
    /\ LauncherInit
    /\ kind = "base"
    /\ TreeIdle
    /\ ScriptIdle
    /\ FlagsInit
    /\ ClusterIdle
    /\ ControllerIdle
    /\ BroadcastIdle
    /\ TempIdle
    /\ SchedulerIdle
    /\ EngineIdle
    /\ ShutdownIdle

NextFlags ==
    \/ SetFlags
    \/ Apply

SpecFlags == InitFlags /\ [][NextFlags]_vars

\* the flag value is one the view must reject
Malformed(f) ==
    \/ f.name \in {"follow", "after"} /\ ~validate_dependency(f.value)
    \/ /\ f.name = "timeout"
       /\ \/ f.value.type \notin {"int", "float", "NoneType"}
          \/ f.value.type # "NoneType" /\ f.value.val < 0
    \/ f.name = "retries" /\ f.value.type # "int"

\* C16: a malformed dependency, an invalid timeout or a non-integer retries
\* given to set_flags raises to the caller, and no task request is ever sent
\* whose after/follow fails the dependency validation, whose timeout is
\* negative or whose retries is not the integer last accepted.
C16_Claim ==
    [][/\ Malformed(flag') => error' # "none"
       /\ request'.sent =>
             /\ validate_dependency(request'.after)
             /\ validate_dependency(request'.follow)
             /\ request'.timeout >= 0
             /\ request'.retries >= 0]_vars

\* C22: under the pure task scheme a submission that carries one of the
\* scheduler flags follow, after, retries, targets or timeout, passed to
\* the call or set on the view before, raises RuntimeError and sends no
\* request.
C22_Claim ==
    [][call'.applied /\ task_scheme = "pure"
       /\ (\/ Truthy(call'.value)
           \/ Truthy(follow) \/ Truthy(after)
           \/ retries # 0 \/ timeout # 0)
       => error' = "RuntimeError" /\ ~request'.sent]_vars
\* ------------------------------------------------------------------
\* ipcluster: launcher classes, pid file and exit status
\* ------------------------------------------------------------------
MaxFilePid == 2
FilePids == 1..MaxFilePid
\* os.getpid() of the ipcluster process itself
OwnPid == MaxFilePid + 1
ALREADY_STARTED == 10
ALREADY_STOPPED == 11

\* A class name is the sequence of its parts; "." separates module names.
Dot == "."
LauncherKinds == {"Controller", "EngineSet"}
ShortNames == {"Local", "MPI", "SSH", "PBS", "Slurm", "SGE", "LSF",
               "HTCondor", "WindowsHPC"}
LauncherModule == <<"ipyparallel", Dot, "apps", Dot, "launcher">>
\* the launcher classes of ipyparallel.apps.launcher
LauncherClasses ==
    {<<X, K, "Launcher">> : X \in ShortNames, K \in LauncherKinds}
    \cup {<<X, "Launcher">> : X \in ShortNames \ {"Local"}}
    \cup {<<"SSHProxy", "EngineSet", "Launcher">>,
          <<"MPIExec", "Controller", "Launcher">>,
          <<"MPIExec", "EngineSet", "Launcher">>}
\* the importable modules and their attributes
UserModule == <<"mypkg">>
Modules == {LauncherModule, UserModule}
Attributes(module) ==
    IF module = LauncherModule THEN LauncherClasses ELSE {<<"MyLauncher">>}
\* the launcher class names a user configures
ClassNames ==
    {<<X>> : X \in {"Local", "MPI", "SSH", "PBS", "Bogus"}}
    \cup {<<"Local", "Controller", "Launcher">>,
          <<"SSHProxy", "EngineSet", "Launcher">>,
          <<"Slurm", "EngineSet", "Launcher">>,
          LauncherModule \o <<Dot, "LSF", "EngineSet", "Launcher">>,
          LauncherModule \o <<Dot, "SGE", "Controller", "Launcher">>,
          UserModule \o <<Dot, "MyLauncher">>,
          UserModule \o <<Dot, "Missing">>,
          <<"nopkg", Dot, "MyLauncher">>}

ImportError == <<"ImportError">>
Contains(s, t) == \E i \in 1..Len(s) : s[i] = t
\* name.rsplit('.', 1): the position of the last dot, 0 when there is none
LastDot(name) ==
    CHOOSE i \in 0..Len(name) :
        /\ i = 0 \/ name[i] = Dot
        /\ \A j \in (i + 1)..Len(name) : name[j] # Dot
\* ipython_genutils.importstring.import_item: the object, named by its
\* full dotted name, or ImportError
import_item(name) ==
    LET i == LastDot(name)
        package == SubSeq(name, 1, i - 1)
        obj == SubSeq(name, i + 1, Len(name))
    IN  IF i = 0
        THEN IF name \in Modules THEN name ELSE ImportError
        ELSE IF package \in Modules /\ obj \in Attributes(package)
             THEN name
             ELSE ImportError

find_launcher_class_no_kind(clsname, kind_) ==
    IF ~Contains(clsname, Dot)
    THEN import_item(LauncherModule \o <<Dot>> \o
                     (IF ~Contains(clsname, kind_)
                      THEN clsname \o <<"Launcher">>
                      ELSE clsname))
    ELSE import_item(clsname)
find_launcher_class(clsname, kind_) ==
    IF ~Contains(clsname, Dot)
    THEN import_item(LauncherModule \o <<Dot>> \o
                     (IF ~Contains(clsname, kind_)
                      THEN clsname \o <<kind_, "Launcher">>
                      ELSE clsname))
    ELSE import_item(clsname)

\* IPClusterEngines.build_launcher: the launcher constructed, and the
\* argument of self.exit ({} when the app goes on)
build_launcher(clsname, kind_) ==
    LET klass == find_launcher_class(clsname, kind_)
    IN  IF klass = ImportError
        THEN [exit |-> {1}, launcher |-> NoLauncher]
        ELSE [exit |-> {}, launcher |-> klass]

\* BaseParallelApplication.check_pid
check_pid(pid) == pid = OwnPid \/ pid \in alive

ClusterInit ==
    /\ subcommand \in {"start", "stop", "engines"}
    /\ controller_launcher_class \in
           IF subcommand = "start" THEN ClassNames ELSE {<<>>}
    /\ engine_launcher_class \in
           IF subcommand = "stop" THEN {<<>>} ELSE ClassNames
    /\ controller_launcher = NoLauncher
    /\ engine_launcher = NoLauncher
    /\ pid_file \in {{}} \cup {{p} : p \in FilePids}
    /\ alive \in SUBSET FilePids
    /\ exit_status = {}
    /\ app = "new"
    /\ started_launchers = {}
    /\ killed = {}

\* IPClusterEngines.initialize: init_launchers of the subcommand
\* (IPClusterStop has no launchers)
init_launchers ==
    /\ app = "new"
    /\ LET c == build_launcher(controller_launcher_class, "Controller")
           e == build_launcher(engine_launcher_class, "EngineSet")
       IN  \/ /\ subcommand = "stop"
              /\ app' = "initialized"
              /\ UNCHANGED <<controller_launcher, engine_launcher,
                             exit_status>>
           \/ /\ subcommand = "engines"
              /\ engine_launcher' = e.launcher
              /\ exit_status' = e.exit
              /\ app' = IF e.exit = {} THEN "initialized" ELSE "exited"
              /\ UNCHANGED controller_launcher
           \/ /\ subcommand = "start"
              /\ controller_launcher' = c.launcher
              /\ engine_launcher' =
                     IF c.exit = {} THEN e.launcher ELSE NoLauncher
              /\ exit_status' = IF c.exit = {} THEN e.exit ELSE c.exit
              /\ app' = IF c.exit = {} /\ e.exit = {}
                        THEN "initialized" ELSE "exited"
    /\ UNCHANGED <<subcommand, controller_launcher_class,
                   engine_launcher_class, pid_file, alive, started_launchers, killed>>
    /\ UNCHANGED NotCluster

\* IPClusterStop.start exits at once: no pid file, or its pid is not running
stop_exits_without_file(file) == file = {}
stop_exits(file) == file = {} \/ \E p \in file : ~check_pid(p)

\* os.kill / taskkill in IPClusterStop.start
KillOutcomes == {"posix", "posix_OSError", "nt", "nt_error"}

IPClusterStop_start ==
    /\ subcommand = "stop"
    /\ app = "initialized"
    /\ IF stop_exits(pid_file)
       THEN /\ pid_file' = {}
            /\ exit_status' = {ALREADY_STOPPED}
            /\ app' = "exited"
            /\ killed' = killed
       ELSE \E outcome \in KillOutcomes :
            /\ killed' = IF outcome \in {"posix", "nt"}
                         THEN killed \cup pid_file ELSE killed
            /\ pid_file' = IF outcome = "posix" THEN pid_file ELSE {}
            /\ exit_status' = exit_status
            /\ app' = "done"
    /\ UNCHANGED <<subcommand, controller_launcher_class,
                   engine_launcher_class, controller_launcher,
                   engine_launcher, alive, started_launchers>>
    /\ UNCHANGED NotCluster

\* IPClusterStart.start, up to self.loop.start()
IPClusterStart_start ==
    /\ subcommand = "start"
    /\ app = "initialized"
    /\ IF \E p \in pid_file : check_pid(p)
       THEN /\ exit_status' = {ALREADY_STARTED}
            /\ app' = "exited"
            /\ pid_file' = pid_file
       ELSE /\ pid_file' = {OwnPid}
            /\ app' = "loop"
            /\ exit_status' = exit_status
    /\ UNCHANGED <<subcommand, controller_launcher_class,
                   engine_launcher_class, controller_launcher,
                   engine_launcher, alive, started_launchers, killed>>
    /\ UNCHANGED NotCluster

\* IPClusterEngines.start, up to self.loop.start()
IPClusterEngines_start ==
    /\ subcommand = "engines"
    /\ app = "initialized"
    /\ app' = "loop"
    /\ UNCHANGED <<subcommand, controller_launcher_class,
                   engine_launcher_class, controller_launcher,
                   engine_launcher, pid_file, alive, exit_status, started_launchers,
                   killed>>
    /\ UNCHANGED NotCluster

\* IPClusterStart.start_controller, the first callback of the loop
start_controller ==
    /\ subcommand = "start"
    /\ app = "loop"
    /\ "controller" \notin started_launchers
    /\ started_launchers' = started_launchers \cup {"controller"}
    /\ UNCHANGED <<subcommand, controller_launcher_class,
                   engine_launcher_class, controller_launcher,
                   engine_launcher, pid_file, alive, exit_status, app,
                   killed>>
    /\ UNCHANGED NotCluster

\* IPClusterEngines.start_engines: at once for engines, self.delay after
\* start_controller for start
start_engines ==
    /\ app = "loop"
    /\ "engines" \notin started_launchers
    /\ subcommand = "start" => "controller" \in started_launchers
    /\ started_launchers' = started_launchers \cup {"engines"}
    /\ UNCHANGED <<subcommand, controller_launcher_class,
                   engine_launcher_class, controller_launcher,
                   engine_launcher, pid_file, alive, exit_status, app,
                   killed>>
    /\ UNCHANGED NotCluster

\* self.loop.start() returns; IPClusterStart.start removes its pid file
loop_stop ==
    /\ app = "loop"
    /\ app' = "done"
    /\ pid_file' = IF subcommand = "start" THEN {} ELSE pid_file
    /\ UNCHANGED <<subcommand, controller_launcher_class,
                   engine_launcher_class, controller_launcher,
                   engine_launcher, alive, exit_status, started_launchers, killed>>
    /\ UNCHANGED NotCluster

InitCluster ==
    /\ LauncherInit
    /\ kind = "base"
    /\ TreeIdle
    /\ ScriptIdle
    /\ FlagsIdle
    /\ ClusterInit
    /\ ControllerIdle
    /\ BroadcastIdle
    /\ TempIdle
    /\ SchedulerIdle
    /\ EngineIdle
    /\ ShutdownIdle

NextCluster ==
    \/ init_launchers
    \/ IPClusterStop_start
    \/ IPClusterStart_start
    \/ IPClusterEngines_start
    \/ start_controller
    \/ start_engines
    \/ loop_stop

SpecCluster == InitCluster /\ [][NextCluster]_vars

\* the launchers the subcommand asks build_launcher for
Requested ==
    (IF subcommand = "start"
     THEN {[name |-> controller_launcher_class, kind |-> "Controller",
            launcher |-> controller_launcher]}
     ELSE {})
    \cup (IF subcommand \in {"start", "engines"}
          THEN {[name |-> engine_launcher_class, kind |-> "EngineSet",
                 launcher |-> engine_launcher]}
          ELSE {})
\* the class the claim's rule names: X + K + 'Launcher' of the launcher
\* module for a plain name, the name as given when it contains K or a dot
Expected(r) ==
    IF Contains(r.name, Dot) THEN r.name
    ELSE LauncherModule \o <<Dot>> \o
         (IF Contains(r.name, r.kind) THEN r.name
          ELSE r.name \o <<r.kind, "Launcher">>)
Importable ==
    {LauncherModule \o <<Dot>> \o a : a \in LauncherClasses}
    \cup {UserModule \o <<Dot, "MyLauncher">>}

\* C17 (as stated): an unresolvable launcher class name exits with a
\* non-zero status before ANY launcher is constructed or started_launchers; a name
\* that resolves gives the class X + K + 'Launcher' (or the name as given).
C17_Original ==
    app # "new" =>
        \A r \in Requested :
            IF Expected(r) \notin Importable
            THEN /\ exit_status = {1}
                 /\ controller_launcher = NoLauncher
                 /\ engine_launcher = NoLauncher
                 /\ started_launchers = {}
            ELSE r.launcher \in {NoLauncher, Expected(r)}

\* C17 (amended): an unresolvable launcher class name exits with status 1
\* before that launcher, or any launcher built after it, is constructed
\* and before any launcher is started_launchers (ipcluster start builds the
\* controller launcher first, so it may exist when the engine class
\* fails); a resolvable name gives X + K + 'Launcher' of the launcher
\* module for a plain name X, and the class named as given when the name
\* contains K or a module path; when every name resolves, every launcher
\* is constructed.
C17_Amended ==
    app # "new" =>
        /\ \A r \in Requested :
               IF Expected(r) \notin Importable
               THEN /\ exit_status = {1}
                    /\ app = "exited"
                    /\ r.launcher = NoLauncher
                    /\ engine_launcher = NoLauncher
                    /\ started_launchers = {}
               ELSE r.launcher \in {NoLauncher, Expected(r)}
        /\ (\A r \in Requested : Expected(r) \in Importable) =>
               /\ \A r \in Requested : r.launcher = Expected(r)
               /\ 1 \notin exit_status

C17_Witness ==
    /\ subcommand = "start"
    /\ controller_launcher_class = <<"PBS">>
    /\ controller_launcher =
           LauncherModule \o <<Dot, "PBS", "Controller", "Launcher">>
    /\ engine_launcher_class = <<"Bogus">>
    /\ engine_launcher = NoLauncher
    /\ exit_status = {1}
    /\ app = "exited"

\* the start() of a subcommand runs in this step
StopRuns == subcommand = "stop" /\ app = "initialized" /\ app' # app
StartRuns == subcommand = "start" /\ app = "initialized" /\ app' # app
\* the pid file records a pid and no running process has it
Stale == pid_file # {} /\ pid_file \cap (alive \cup {OwnPid}) = {}

\* C18: ipcluster stop exits with ALREADY_STOPPED and leaves no pid file
\* when there is no pid file or its pid is not running; ipcluster start
\* exits with ALREADY_STARTED, a different status, with no controller and
\* no engine started, when the pid file names a running process; on a
\* stale pid file it removes the record and goes on to start the cluster.
C18_PidFileExits ==
    [][/\ ALREADY_STARTED # ALREADY_STOPPED
       /\ {ALREADY_STARTED, ALREADY_STOPPED} \cap {0, 1} = {}
       /\ StopRuns /\ (pid_file = {} \/ Stale) =>
              /\ exit_status' = {ALREADY_STOPPED}
              /\ pid_file' = {}
              /\ killed' = {}
       /\ StartRuns /\ pid_file \cap alive # {} =>
              /\ exit_status' = {ALREADY_STARTED}
              /\ app' = "exited"
       /\ ALREADY_STARTED \in exit_status' =>
              /\ started_launchers' = {}
              /\ app' = "exited"
       /\ StartRuns /\ Stale =>
              /\ pid_file' \cap pid_file = {}
              /\ exit_status' = {}
              /\ app' = "loop"
       /\ "engines" \in started_launchers' /\ subcommand = "start" =>
              "controller" \in started_launchers' /\ exit_status' = {}
      ]_vars

C18_Witness ==
    /\ subcommand = "start"
    /\ exit_status = {ALREADY_STARTED}
    /\ pid_file # {}
    /\ pid_file \subseteq alive
    /\ controller_launcher # NoLauncher
    /\ engine_launcher # NoLauncher
    /\ started_launchers = {}
    /\ app = "exited"

\* ------------------------------------------------------------------
\* IPControllerApp: reuse and cleanup of the connection files
\* ------------------------------------------------------------------
MaxRuns == 2
\* Session keys of files left by earlier controllers
OldKeys == {MaxRuns + 1, MaxRuns + 2}
\* A connection file: absent, not loadable as the JSON dict the loader
\* indexes, or a dict with its key, written by the given run.
MalformedFile == [content |-> "malformed", key |-> 0, run |-> 0]
ConnectionFile(key_, run_) == [content |-> "dict", key |-> key_, run |-> run_]
FoundFiles == {NoFile, MalformedFile} \cup {ConnectionFile(k, 0) : k \in OldKeys}

\* IPControllerApp.load_config_from_json: "ok" or the exception raised
load_config_from_json ==
    IF engine_json_file.content = "absent" THEN "IOError"
    ELSE IF engine_json_file.content = "malformed" THEN "ValueError"
    ELSE IF client_json_file.content = "absent" THEN "IOError"
    ELSE IF client_json_file.content = "malformed" THEN "ValueError"
    ELSE IF client_json_file.key # engine_json_file.key THEN "AssertionError"
    ELSE "ok"

\* load_config_from_json: c.Session.key is assigned as soon as the engine
\* file is read, before the client file is opened and compared
loaded_Session_key ==
    IF engine_json_file.content = "dict" THEN engine_json_file.key
    ELSE Session_key

\* c.Session.key: set from the engine file when that was read, else new
SessionKey ==
    IF reuse_files /\ engine_json_file.content = "dict"
    THEN engine_json_file.key
    ELSE run

ControllerInit ==
    /\ reuse_files \in BOOLEAN
    /\ write_connection_files = TRUE
    /\ client_json_file \in FoundFiles
    /\ engine_json_file \in FoundFiles
    /\ run = 1
    /\ ctl = "new"
    /\ Session_key = 0

\* IPControllerApp.initialize: load_secondary_config, then init_hub
initialize ==
    /\ ctl = "new"
    /\ LET loaded == IF reuse_files THEN load_config_from_json ELSE "skipped"
       IN  IF loaded = "ValueError"
           THEN \* not caught by except (AssertionError, IOError)
                /\ ctl' = "crashed"
                /\ UNCHANGED <<write_connection_files, client_json_file,
                               engine_json_file>>
           ELSE /\ write_connection_files' = (loaded # "ok")
                /\ \E hub_constructed \in BOOLEAN :
                       IF ~hub_constructed
                       THEN /\ ctl' = "exited"
                            /\ UNCHANGED <<client_json_file, engine_json_file>>
                       ELSE /\ ctl' = "initialized"
                            /\ IF write_connection_files'
                               THEN /\ client_json_file' =
                                           ConnectionFile(SessionKey, run)
                                    /\ engine_json_file' =
                                           ConnectionFile(SessionKey, run)
                               ELSE UNCHANGED <<client_json_file,
                                                engine_json_file>>
    /\ Session_key' = IF reuse_files THEN loaded_Session_key ELSE Session_key
    /\ UNCHANGED <<reuse_files, run>>
    /\ UNCHANGED NotController

\* IPControllerApp.start, up to self.factory.loop.start()
controller_start ==
    /\ ctl = "initialized"
    /\ ctl' = "loop"
    /\ UNCHANGED <<reuse_files, write_connection_files, client_json_file,
                   engine_json_file, run, Session_key>>
    /\ UNCHANGED NotController

\* what ends the loop: KeyboardInterrupt, or handle_signal's loop.stop()
LoopEnds == {"KeyboardInterrupt", "SIGINT", "SIGABRT", "SIGTERM"}

\* the loop ends: finally: self.cleanup_connection_files()
cleanup_connection_files ==
    /\ ctl = "loop"
    /\ \E cause \in LoopEnds : ctl' = "done"
    /\ IF reuse_files
       THEN UNCHANGED <<client_json_file, engine_json_file>>
       ELSE /\ client_json_file' = NoFile
            /\ engine_json_file' = NoFile
    /\ UNCHANGED <<reuse_files, write_connection_files, run, Session_key>>
    /\ UNCHANGED NotController

\* ipcontroller is run again in the same profile
run_again ==
    /\ ctl \in {"done", "crashed", "exited"}
    /\ run < MaxRuns
    /\ run' = run + 1
    /\ ctl' = "new"
    /\ reuse_files' \in BOOLEAN
    /\ write_connection_files' = TRUE
    /\ Session_key' = 0
    /\ UNCHANGED <<client_json_file, engine_json_file>>
    /\ UNCHANGED NotController

InitController ==
    /\ LauncherInit
    /\ kind = "base"
    /\ TreeIdle
    /\ ScriptIdle
    /\ FlagsIdle
    /\ ClusterIdle
    /\ ControllerInit
    /\ BroadcastIdle
    /\ TempIdle
    /\ SchedulerIdle
    /\ EngineIdle
    /\ ShutdownIdle

NextController ==
    \/ initialize
    \/ controller_start
    \/ cleanup_connection_files
    \/ run_again

SpecController == InitController /\ [][NextController]_vars

FilesKept ==
    /\ client_json_file' = client_json_file
    /\ engine_json_file' = engine_json_file
\* both files exist and their contents agree
LoadsConsistently ==
    /\ client_json_file.content = "dict"
    /\ engine_json_file.content = "dict"
    /\ client_json_file.key = engine_json_file.key
\* the controller got past initialize with its hub constructed
Initialized == ctl = "new" /\ ctl' # "new" /\ ctl' # "exited"

\* C19: when the loop ends the two connection files are removed if
\* reuse_files is false and kept if it is true; with reuse_files true,
\* files that load consistently are not rewritten, and files that fail
\* to load are regenerated.
C19_Claim ==
    [][/\ ctl = "loop" /\ ctl' = "done" =>
              IF reuse_files
              THEN FilesKept
              ELSE client_json_file' = NoFile /\ engine_json_file' = NoFile
       /\ Initialized /\ reuse_files /\ LoadsConsistently => FilesKept
       /\ Initialized /\ reuse_files /\ ~LoadsConsistently =>
              /\ client_json_file'.content = "dict"
              /\ engine_json_file'.content = "dict"
              /\ client_json_file'.run = run
              /\ engine_json_file'.run = run
      ]_vars

\* ------------------------------------------------------------------
\* BroadcastView._really_apply under @sync_results @save_ids
\* ------------------------------------------------------------------
MaxTargets == 2
MaxApplies == 2
\* the idents of the engines of the view
Idents == 1..MaxTargets
\* the msg_id of the n-th message, and f'{original_msg_id}_{ident}'
MsgId(n) == <<n>>
msg_and_target_id(original_msg_id, ident) == original_msg_id \o <<ident>>

\* list[-nmsgs:], which is the whole list when nmsgs = 0
LastItems(list, nmsgs) ==
    IF nmsgs = 0 THEN list
    ELSE SubSeq(list, Len(list) - nmsgs + 1, Len(list))
Range(list) == {list[i] : i \in 1..Len(list)}

\* View._sync_results: the outstanding set left
sync_results(outstanding, of_client) ==
    LET delta == outstanding \ of_client
        completed == outstanding \cap delta
    IN  outstanding \ completed

\* self.outstanding after the body of BroadcastView._really_apply
body_outstanding(outstanding, original_msg_id, ids, coalescing) ==
    IF ~coalescing
    THEN (outstanding \cup ids) \ {original_msg_id}
    ELSE outstanding

BroadcastInit ==
    /\ is_coalescing \in BOOLEAN
    /\ targets = {}
    /\ futures = {}
    /\ client_history = <<>>
    /\ client_outstanding = {}
    /\ view_history = <<>>
    /\ view_outstanding = {}
    /\ msg_count = 0
    /\ balanced_history = <<>>
    /\ balanced_outstanding = {}
    /\ failures = 0
    /\ last_call = "none"
    /\ in_sync_results = [v \in {"BroadcastView", "LoadBalancedView"} |-> FALSE]
    /\ syncs = 0

\* the client and one view of it, as a decorated call works on them
Session(name) ==
    [client_history |-> client_history,
     client_outstanding |-> client_outstanding,
     history |-> IF name = "BroadcastView" THEN view_history
                 ELSE balanced_history,
     outstanding |-> IF name = "BroadcastView" THEN view_outstanding
                     ELSE balanced_outstanding,
     in_sync_results |-> in_sync_results[name],
     syncs |-> 0,
     msg_count |-> msg_count,
     futures |-> {},
     raised |-> FALSE]

\* self.client.send_apply_request: one message leaves
send_apply_request(s) ==
    LET msg_id == MsgId(s.msg_count + 1)
    IN  [s EXCEPT !.client_history = Append(@, msg_id),
                  !.client_outstanding = @ \cup {msg_id},
                  !.msg_count = @ + 1]

\* the body of BroadcastView._really_apply(f, targets=T), block=False
BroadcastView_really_apply(s, T, coalescing) ==
    LET posted == send_apply_request(s)
        original_msg_id == MsgId(posted.msg_count)
        ids == {msg_and_target_id(original_msg_id, ident) : ident \in T}
    IN  [posted EXCEPT
            !.client_outstanding = IF coalescing THEN @ ELSE @ \cup ids,
            !.outstanding = body_outstanding(@, original_msg_id, ids,
                                             coalescing),
            !.futures = IF coalescing THEN {original_msg_id} ELSE ids]

\* the body of LoadBalancedView._really_apply(f), block=False: when the
\* socket is closed it raises RuntimeError before anything is sent
LoadBalancedView_really_apply(s, closed) ==
    IF closed THEN [s EXCEPT !.raised = TRUE] ELSE send_apply_request(s)

\* the decorator save_ids: its finally clause, when f has taken the
\* session s to r
save_ids(s, r) ==
    LET n_previous == Len(s.client_history)
        nmsgs == Len(r.client_history) - n_previous
        msg_ids == LastItems(r.client_history, nmsgs)
    IN  [r EXCEPT !.history = @ \o msg_ids,
                  !.outstanding = @ \cup Range(msg_ids)]

\* the decorator sync_results: the session f runs on
in_sync_results_set(s) == [s EXCEPT !.in_sync_results = TRUE]

\* the decorator sync_results, when f has taken the session s to r: plain
\* f when the flag was set, else finally the flag is cleared and
\* _sync_results runs
sync_results_always(s, r) ==
    [r EXCEPT !.in_sync_results = FALSE,
              !.outstanding = sync_results(@, r.client_outstanding),
              !.syncs = @ + 1]

sync_results_decorator(s, r) ==
    IF s.in_sync_results THEN r
    ELSE [r EXCEPT !.in_sync_results = FALSE,
                   !.outstanding = sync_results(@, r.client_outstanding),
                   !.syncs = @ + 1]

\* BroadcastView._really_apply as decorated:
\* sync_results(save_ids(_really_apply))
really_apply(s, T, coalescing) ==
    LET entered == in_sync_results_set(s)
        body == BroadcastView_really_apply(entered, T, coalescing)
    IN  sync_results_decorator(s, save_ids(entered, body))

\* the body of DirectView.gather(key, targets=T, block=False): one
\* self.pull(key, block=False, targets=engineid) for each target, in order
RECURSIVE gather(_, _, _)
gather(s, T, coalescing) ==
    IF T = {} THEN s
    ELSE LET engineid == CHOOSE e \in T : \A o \in T : e <= o
             pulled == really_apply(s, {engineid}, coalescing)
             rest == gather(pulled, T \ {engineid}, coalescing)
         IN  [rest EXCEPT !.futures = pulled.futures \cup @]

\* the call leaves the client and the BroadcastView as r has them
SetBroadcastView(r) ==
    /\ futures' = r.futures
    /\ client_history' = r.client_history
    /\ client_outstanding' = r.client_outstanding
    /\ view_history' = r.history
    /\ view_outstanding' = r.outstanding
    /\ msg_count' = r.msg_count
    /\ in_sync_results' =
           [in_sync_results EXCEPT !["BroadcastView"] = r.in_sync_results]
    /\ syncs' = r.syncs

\* BroadcastView._really_apply(f, targets=T), block=False
BroadcastApply ==
    /\ msg_count < MaxApplies
    /\ \E T \in SUBSET Idents \ {{}} :
           /\ targets' = T
           /\ SetBroadcastView(really_apply(Session("BroadcastView"), T,
                                            is_coalescing))
    /\ last_call' = "BroadcastView"
    /\ UNCHANGED <<is_coalescing, balanced_history, balanced_outstanding,
                   failures>>
    /\ UNCHANGED NotBroadcast

\* view.gather(key, targets=T, block=False) on the BroadcastView, as
\* decorated: sync_results(save_ids(gather))
Gather ==
    /\ \E T \in SUBSET Idents \ {{}} :
           /\ msg_count + Cardinality(T) <= MaxApplies
           /\ targets' = T
           /\ LET s == Session("BroadcastView")
                  entered == in_sync_results_set(s)
                  body == gather(entered, T, is_coalescing)
              IN  SetBroadcastView(
                      sync_results_decorator(s, save_ids(entered, body)))
    /\ last_call' = "gather"
    /\ UNCHANGED <<is_coalescing, balanced_history, balanced_outstanding,
                   failures>>
    /\ UNCHANGED NotBroadcast

\* LoadBalancedView._really_apply(f), block=False, as decorated:
\* sync_results(save_ids(_really_apply))
BalancedApply ==
    /\ \E closed \in BOOLEAN :
       LET s == Session("LoadBalancedView")
           entered == in_sync_results_set(s)
           body == LoadBalancedView_really_apply(entered, closed)
           r == sync_results_decorator(s, save_ids(entered, body))
       IN  /\ IF closed THEN failures < MaxApplies
              ELSE msg_count < MaxApplies
           /\ client_history' = r.client_history
           /\ client_outstanding' = r.client_outstanding
           /\ balanced_history' = r.history
           /\ balanced_outstanding' = r.outstanding
           /\ msg_count' = r.msg_count
           /\ in_sync_results' = [in_sync_results EXCEPT
                                     !["LoadBalancedView"] = r.in_sync_results]
           /\ syncs' = r.syncs
           /\ failures' = IF r.raised THEN failures + 1 ELSE failures
           /\ last_call' = IF r.raised THEN "RuntimeError"
                           ELSE "LoadBalancedView"
    /\ UNCHANGED <<is_coalescing, targets, futures, view_history,
                   view_outstanding>>
    /\ UNCHANGED NotBroadcast

\* the client handles the reply to an outstanding message
HandleReply ==
    /\ \E msg_id \in client_outstanding :
           client_outstanding' = client_outstanding \ {msg_id}
    /\ last_call' = "none"
    /\ UNCHANGED <<is_coalescing, targets, futures, client_history,
                   view_history, view_outstanding, msg_count,
                   balanced_history, balanced_outstanding, failures,
                   in_sync_results, syncs>>
    /\ UNCHANGED NotBroadcast

\* view.is_coalescing is assigned
SetCoalescing ==
    /\ is_coalescing' = ~is_coalescing
    /\ last_call' = "none"
    /\ UNCHANGED <<targets, futures, client_history, client_outstanding,
                   view_history, view_outstanding, msg_count,
                   balanced_history, balanced_outstanding, failures,
                   in_sync_results, syncs>>
    /\ UNCHANGED NotBroadcast

InitBroadcast ==
    /\ LauncherInit
    /\ kind = "base"
    /\ TreeIdle
    /\ ScriptIdle
    /\ FlagsIdle
    /\ ClusterIdle
    /\ ControllerIdle
    /\ BroadcastInit
    /\ TempIdle
    /\ SchedulerIdle
    /\ EngineIdle
    /\ ShutdownIdle

NextBroadcast ==
    \/ BroadcastApply
    \/ Gather
    \/ BalancedApply
    \/ HandleReply
    \/ SetCoalescing

SpecBroadcast == InitBroadcast /\ [][NextBroadcast]_vars

\* C20: after a non-coalescing apply to N targets the caller tracks N
\* completions '<msg_id>_<ident>', each outstanding in the client and in
\* the view, and the wire message id is not in the view's outstanding
\* set; after a coalescing apply it tracks the wire message only.
C20_Claim ==
    [][last_call' = "BroadcastView" =>
           LET wire == MsgId(msg_count')
           IN  IF ~is_coalescing
               THEN /\ futures' = {wire \o <<e>> : e \in targets'}
                    /\ Cardinality(futures') = Cardinality(targets')
                    /\ futures' \subseteq client_outstanding'
                    /\ futures' \subseteq view_outstanding'
                    /\ wire \notin view_outstanding'
               ELSE futures' = {wire}
      ]_vars

\* ------------------------------------------------------------------
\* View.temp_flags: flags saved, set and restored
\* ------------------------------------------------------------------
MaxFlagChanges == 2
\* LoadBalancedView._flag_names, and a name that is no flag
FlagNames ==
    {"targets", "block", "track", "follow", "after", "timeout", "retries"}
GivenNames == FlagNames \cup {"bogus"}
\* the values given for each flag
GivenValues(name) ==
    IF name = "targets" THEN {None, Value("list", "int", FALSE, 0)}
    ELSE IF name \in {"block", "track"}
    THEN {Value("bool", "", TRUE, 0), Value("bool", "", TRUE, 1)}
    ELSE IF name \in {"follow", "after"}
    THEN {None, Value("str", "", FALSE, 0), Value("int", "", TRUE, 5)}
    ELSE IF name = "timeout"
    THEN {Value("int", "", TRUE, 1), Value("int", "", TRUE, -1),
          Value("str", "", FALSE, 0)}
    ELSE {Value("int", "", TRUE, 2), Value("str", "", TRUE, 2)}

\* LoadBalancedView.set_flags(name=value) on the flags v: the flags it
\* leaves and the exception it raises
set_flags(v, name, value) ==
    IF name \notin FlagNames
    THEN [view |-> v, error |-> "KeyError"]
    ELSE IF name = "targets"
    THEN [view |-> [v EXCEPT !.targets = value], error |-> "none"]
    ELSE IF name = "block"
    THEN [view |-> [v EXCEPT !.block = (value.val = 1)], error |-> "none"]
    ELSE IF name = "track"
    THEN [view |-> [v EXCEPT !.track = (value.val = 1)], error |-> "none"]
    ELSE IF name = "follow"
    THEN [view |-> [v EXCEPT !.follow = value],
          error |-> IF validate_dependency(value) THEN "none"
                    ELSE "ValueError"]
    ELSE IF name = "after"
    THEN [view |-> [v EXCEPT !.after = value],
          error |-> IF validate_dependency(value) THEN "none"
                    ELSE "ValueError"]
    ELSE IF name = "timeout"
    THEN IF ~value.num
         THEN [view |-> v, error |-> "TraitError"]
         ELSE [view |-> [v EXCEPT !.timeout = value.val],
               error |-> TimeoutError(value)]
    ELSE IF value.type # "int"
         THEN [view |-> v, error |-> "TraitError"]
         ELSE [view |-> [v EXCEPT !.retries = value.val], error |-> "none"]

\* self.set_flags(**saved_flags): View.set_flags assigns every flag, then
\* follow, after and timeout are validated
restore_flags_given(v, saved, given) ==
    IF given.name \in FlagNames
    THEN [view |-> [v EXCEPT ![given.name] = saved[given.name]],
          error |-> "none"]
    ELSE [view |-> v, error |-> "none"]
restore_flags(v, saved, given) ==
    [view |-> saved,
     error |-> IF \/ ~validate_dependency(saved.follow)
                  \/ ~validate_dependency(saved.after)
                  \/ saved.timeout < 0
               THEN "ValueError" ELSE "none"]

TempInit ==
    /\ view = DefaultFlags
    /\ saved_flags = <<>>
    /\ kwargs = NoFlag
    /\ left = "none"
    /\ temp_error = "none"
    /\ flag_changes = 0

\* view.set_flags(name=value), inside or outside a temp_flags block
TempSetFlags ==
    /\ flag_changes < MaxFlagChanges
    /\ \E name \in GivenNames : \E value \in GivenValues(name) :
       LET set == set_flags(view, name, value)
       IN  /\ view' = set.view
           /\ temp_error' = set.error
    /\ left' = "none"
    /\ flag_changes' = flag_changes + 1
    /\ UNCHANGED <<saved_flags, kwargs>>
    /\ UNCHANGED NotView

\* with view.temp_flags(name=value): the preflight, up to the yield
TempEnter ==
    /\ saved_flags = <<>>
    /\ flag_changes < MaxFlagChanges
    /\ \E name \in GivenNames : \E value \in GivenValues(name) :
       LET set == set_flags(view, name, value)
       IN  /\ kwargs' = [name |-> name, value |-> value]
           /\ view' = set.view
           /\ temp_error' = set.error
           /\ saved_flags' = IF set.error = "none" THEN <<view>> ELSE <<>>
    /\ left' = "none"
    /\ flag_changes' = flag_changes + 1
    /\ UNCHANGED NotView

\* the block is left, at its end or by an exception raised in it:
\* finally: self.set_flags(**saved_flags)
TempExit ==
    /\ saved_flags # <<>>
    /\ \E how \in {"normal", "exception"} :
       LET restored == restore_flags(view, saved_flags[1], kwargs)
       IN  /\ left' = how
           /\ view' = restored.view
           /\ temp_error' = IF restored.error # "none" THEN restored.error
                            ELSE IF how = "exception" THEN "Exception"
                            ELSE "none"
    /\ saved_flags' = <<>>
    /\ UNCHANGED <<kwargs, flag_changes>>
    /\ UNCHANGED NotView

InitTemp ==
    /\ LauncherInit
    /\ kind = "base"
    /\ TreeIdle
    /\ ScriptIdle
    /\ FlagsIdle
    /\ ClusterIdle
    /\ ControllerIdle
    /\ BroadcastIdle
    /\ TempInit
    /\ SchedulerIdle
    /\ EngineIdle
    /\ ShutdownIdle

NextTemp ==
    \/ TempSetFlags
    \/ TempEnter
    \/ TempExit

SpecTemp == InitTemp /\ [][NextTemp]_vars

\* C21: when a temp_flags block is left, at its end or by an exception
\* raised inside it, every flag of the view has the value it had when the
\* block was entered.
C21_Restored ==
    [][saved_flags # <<>> /\ saved_flags' = <<>> =>
           /\ left' \in {"normal", "exception"}
           /\ \A f \in FlagNames : view'[f] = saved_flags[1][f]]_vars

\* a block entered with timeout=1, in which another flag was set, was left
\* by an exception and the view has its flags of before
C21_Witness ==
    /\ left = "exception"
    /\ kwargs = [name |-> "timeout", value |-> Value("int", "", TRUE, 1)]
    /\ flag_changes = 2
    /\ view = DefaultFlags

\* ------------------------------------------------------------------
\* TaskScheduler: dispatch, retries and replies
\* ------------------------------------------------------------------
MaxTasks == 2
MaxSchedEngines == 2
MaxRetries == 1
EngineIds == 1..MaxSchedEngines
\* the retries a task is submitted with: none, or the most
RetryChoices == {0, MaxRetries}

\* a task as submitted with retries = R
NewTask(R) ==
    [state |-> "pending", retries |-> R, R |-> R, attempts |-> 0, lost |-> 0]

\* least-load: the fewest outstanding tasks, ties to the lowest engine id
LeastLoaded(counters, engines_) ==
    CHOOSE e \in engines_ :
        \A f \in engines_ :
            \/ counters[e] < counters[f]
            \/ counters[e] = counters[f] /\ e <= f

\* a scheduling pass: the pending tasks from the i-th on, in arrival
\* order, are dispatched to the engine the policy picks
RECURSIVE SchedulingPass(_, _, _)
SchedulingPass(s, engines_, i) ==
    IF i > Len(s.tasks) THEN s
    ELSE IF s.tasks[i].state = "pending" /\ engines_ # {}
    THEN LET e == LeastLoaded(s.load, engines_)
         IN  SchedulingPass(
                 [s EXCEPT !.tasks[i].state = "assigned",
                           !.tasks[i].attempts = @ + 1,
                           !.load[e] = @ + 1,
                           !.assignments = @ \cup {<<i, e>>}],
                 engines_, i + 1)
    ELSE SchedulingPass(s, engines_, i + 1)

\* retries remain for the task
retries_remain_always(task) == task.retries >= 0
retries_remain(task) == task.retries > 0

\* the dispatches in effect once those of `gone` are unassigned
unassign_keeps(dispatches, gone) == dispatches
unassign(dispatches, gone) == dispatches \ gone

\* the replies of a task once one more is delivered
deliver_nothing(delivered, reply) == delivered
deliver(delivered, reply) == Append(delivered, reply)

\* the attempt of a task is lost, by engine departure or timeout
LoseTask(task) ==
    IF retries_remain(task)
    THEN [task EXCEPT !.state = "pending", !.retries = @ - 1,
                      !.lost = @ + 1]
    ELSE [task EXCEPT !.state = "failed", !.lost = @ + 1]

\* the scheduler state after the attempts `gone` are lost
LoseAll(gone) ==
    LET hit == {p[1] : p \in gone}
    IN  [tasks |-> [i \in DOMAIN tasks |->
                       IF i \in hit THEN LoseTask(tasks[i]) ELSE tasks[i]],
         load |-> [e \in EngineIds |->
                      load[e] - Cardinality({p \in gone : p[2] = e})],
         assignments |-> unassign(assignments, gone)]

\* the replies once the attempts `gone` are lost: a task with no retry
\* left has its failure reply
FailureReplies(gone) ==
    LET hit == {p[1] : p \in gone}
    IN  [i \in DOMAIN replies |->
            IF i \in hit /\ ~retries_remain(tasks[i])
            THEN deliver(replies[i], "exhausted")
            ELSE replies[i]]

SchedulerInit ==
    /\ tasks = <<>>
    /\ live \in SUBSET EngineIds
    /\ load = [e \in EngineIds |-> 0]
    /\ assignments = {}
    /\ replies = <<>>

\* the replies are delivered and the scheduler state is replaced by that
\* after a scheduling pass
Becomes(s, delivered, engines_) ==
    LET after_ == SchedulingPass(s, engines_, 1)
    IN  /\ replies' = delivered
        /\ live' = engines_
        /\ tasks' = after_.tasks
        /\ load' = after_.load
        /\ assignments' = after_.assignments

\* a submit message arrives
SubmitTask ==
    /\ Len(tasks) < MaxTasks
    /\ \E R \in RetryChoices :
           Becomes([tasks |-> Append(tasks, NewTask(R)), load |-> load,
                    assignments |-> assignments],
                   Append(replies, <<>>), live)
    /\ UNCHANGED NotScheduler

\* an engine registers
EngineJoin ==
    /\ \E e \in EngineIds \ live :
           Becomes([tasks |-> tasks, load |-> [load EXCEPT ![e] = 0],
                    assignments |-> assignments],
                   replies, live \cup {e})
    /\ UNCHANGED NotScheduler

\* an engine unregisters or its heartbeat dies
EngineDeparture ==
    /\ \E e \in live :
           LET gone == {p \in assignments : p[2] = e}
           IN  Becomes(LoseAll(gone), FailureReplies(gone), live \ {e})
    /\ UNCHANGED NotScheduler

\* the timeout of an assigned task expires
TaskTimeout ==
    /\ \E t \in DOMAIN tasks :
           /\ tasks[t].state = "assigned"
           /\ LET gone == {p \in assignments : p[1] = t}
              IN  Becomes(LoseAll(gone), FailureReplies(gone), live)
    /\ UNCHANGED NotScheduler

\* the engine of an assigned task replies, with a result or an error
TaskReply(t) ==
    /\ t \in DOMAIN tasks
    /\ tasks[t].state = "assigned"
    /\ \E outcome \in {"success", "error"} :
       LET done == {p \in assignments : p[1] = t}
       IN  Becomes([tasks |-> [tasks EXCEPT ![t].state =
                                   IF outcome = "success" THEN "completed"
                                   ELSE "failed"],
                    load |-> [e \in EngineIds |->
                                 load[e] - Cardinality({p \in done : p[2] = e})],
                    assignments |-> unassign(assignments, done)],
                   [replies EXCEPT ![t] = deliver(@, outcome)], live)
    /\ UNCHANGED NotScheduler

InitScheduler ==
    /\ LauncherInit
    /\ kind = "base"
    /\ TreeIdle
    /\ ScriptIdle
    /\ FlagsIdle
    /\ ClusterIdle
    /\ ControllerIdle
    /\ BroadcastIdle
    /\ TempIdle
    /\ SchedulerInit
    /\ EngineIdle
    /\ ShutdownIdle

NextScheduler ==
    \/ SubmitTask
    \/ EngineJoin
    \/ EngineDeparture
    \/ TaskTimeout
    \/ \E t \in 1..MaxTasks : TaskReply(t)

SpecScheduler == InitScheduler /\ [][NextScheduler]_vars

\* the engines a task is assigned to
AssignedTo(t) == {p[2] : p \in {q \in assignments : q[1] = t}}
SingleAssignment ==
    /\ \A t \in DOMAIN tasks :
           /\ Cardinality(AssignedTo(t)) <= 1
           /\ AssignedTo(t) \subseteq live
           /\ tasks[t].state = "assigned" <=> AssignedTo(t) # {}
    /\ \A e \in EngineIds :
           load[e] = Cardinality({p \in assignments : p[2] = e})

\* C23: a task is assigned to at most one engine at any time; a task that
\* is dispatched again, after an engine departure or a timeout, has had
\* its previous assignment released, so the engine counters count exactly
\* the dispatches in effect.
C23_SingleAssignment ==
    [][/\ SingleAssignment'
       /\ \A t \in DOMAIN tasks :
              tasks'[t].attempts > tasks[t].attempts =>
                  /\ tasks'[t].attempts = tasks[t].attempts + 1
                  /\ \A e \in AssignedTo(t) :
                         <<t, e>> \in assignments' => e \in live
      ]_vars

\* a task with one retry is on its second dispatch, the first engine gone
C23_Witness ==
    /\ Len(tasks) >= 1
    /\ tasks[1].attempts = 2
    /\ tasks[1].state = "assigned"
    /\ assignments = {<<1, 2>>}
    /\ live = {2}

\* C24: a task submitted with retries = R whose every dispatch attempt is
\* lost fails after exactly R + 1 dispatch attempts, never more, and the
\* failure reply is produced at that point.
C24_RetriesExhausted ==
    \A t \in DOMAIN tasks :
        LET task == tasks[t]
        IN  /\ task.attempts <= task.R + 1
            /\ task.lost <= task.attempts
            /\ task.lost = task.R + 1 <=> replies[t] = <<"exhausted">>
            /\ task.lost = task.R + 1 =>
                   task.state = "failed" /\ task.attempts = task.R + 1
            /\ task.lost = task.attempts /\ task.lost <= task.R =>
                   task.state = "pending" /\ replies[t] = <<>>

\* a task with retries = MaxRetries has failed, every attempt lost
C24_Witness ==
    /\ Len(tasks) >= 1
    /\ tasks[1].R = MaxRetries
    /\ tasks[1].attempts = MaxRetries + 1
    /\ tasks[1].lost = MaxRetries + 1
    /\ tasks[1].state = "failed"
    /\ replies[1] = <<"exhausted">>

\* engines answer the tasks assigned to them
SpecSchedulerLive ==
    /\ SpecScheduler
    /\ WF_vars(\E t \in 1..MaxTasks : TaskReply(t))

Terminal(t) ==
    /\ t \in DOMAIN tasks
    /\ tasks[t].state \in {"completed", "failed"}
\* a terminal task has its one terminal reply, any other task none
OneReply ==
    \A t \in DOMAIN tasks :
        /\ Len(replies[t]) <= 1
        /\ Terminal(t) <=> Len(replies[t]) = 1
        /\ Len(replies[t]) = 1 =>
               /\ replies[t][1] \in {"success", "error", "exhausted"}
               /\ replies[t][1] = "success" <=> tasks[t].state = "completed"

\* every submitted task is terminal
AllTerminal == \A t \in DOMAIN tasks : Terminal(t)
\* a terminal task and its reply never change again
StaysTerminal ==
    \A t \in DOMAIN tasks :
        Terminal(t) => /\ tasks'[t] = tasks[t]
                       /\ replies'[t] = replies[t]

SetStep == kind = "set"
\* the entries of the active mapping, as index-child pairs
Entries(ls) == {ls[k] : k \in 1..Len(ls)}

\* C26: a start(n) of an engine set that returns has created n engine
\* launchers under the indices 0..n-1, each started once (from 'before',
\* with a process) with _notice_engine_stopped as its stop observer, and
\* has left the engine set 'running', while a start(n) that raises has not
\* moved the engine set; signal(sig) and stop() send to exactly the
\* children of the active mapping, none of which is 'after'.
C26_FanOut ==
    [][/\ (SetStep /\ StartStep /\ raised' = "none") =>
            LET n == start_data'[Top].a
            IN  /\ nextChild' = nextChild + n
                /\ \A i \in 0..(n - 1) :
                       [idx |-> i, el |-> nextChild + i] \in Entries(launchers')
                /\ \A e \in Entries(launchers') :
                       e.idx >= n => e \in Entries(launchers)
                /\ Len(launchers') = Cardinality({e.idx : e \in Entries(launchers')})
                /\ \A c \in nextChild..(nextChild' - 1) :
                       /\ state[c] = "before" /\ state'[c] = "running"
                       /\ process[c] = NoPid /\ process'[c] # NoPid
                       /\ stop_callbacks'[c] = <<NoticeCb>>
                /\ \A c \in Ids \ (nextChild..(nextChild' - 1)) :
                       process'[c] = process[c]
                /\ state'[Top] = "running"
       /\ (SetStep /\ StartStep /\ raised' # "none") =>
              state'[Top] = state[Top]
       /\ (SetStep /\ op' \in {"stop", "signal"}) =>
            /\ {m.l : m \in sent'} = Children(launchers)
            /\ \A m \in sent' : state[m.l] = "running"
            /\ \E sig \in Sigs : \A m \in sent' : m.sig = sig
            /\ op' = "stop" =>
                   /\ \A m \in sent' : m.sig = "INT"
                   /\ \A c \in Ids :
                          killers'[c] = killers[c] +
                              (IF c \in Children(launchers) THEN 1 ELSE 0)
      ]_vars

\* an engine set started with two engines, one of which has stopped since,
\* has just forwarded a signal to the other one only
C26_Witness ==
    /\ kind = "set"
    /\ start_data[Top] = Payload("dlist", 2, 0)
    /\ op = "signal"
    /\ Len(launchers) = 1
    /\ \E c \in Engines : state[c] = "after" /\ c \notin Children(launchers)
    /\ sent = {[l |-> launchers[1].el, sig |-> "KILL"]}

\* the indices of the active mapping and those of the stop data
ActiveIdx(ls) == {e.idx : e \in Entries(ls)}
StopIdx(d) == {i \in DOMAIN d : d[i] # NoData}

\* C27: the stop notification of a child removes exactly that child from
\* the active mapping and stores the payload, which names its pid, under
\* the index of that child; the active indices and the stop-data indices
\* are disjoint and together they are the indices ever started (they
\* grow by the indices a start has started, and by nothing else).
C27_Claim ==
    [][SetStep =>
         /\ \A c \in Engines :
                (state[c] # "after" /\ state'[c] = "after") =>
                    /\ Children(launchers') = Children(launchers) \ {c}
                    /\ \A e \in Entries(launchers) :
                           IF e.el = c
                           THEN /\ set_stop_data'[e.idx].tag = "exit"
                                /\ set_stop_data'[e.idx].b = process[c]
                           ELSE set_stop_data'[e.idx] = set_stop_data[e.idx]
         /\ ActiveIdx(launchers') \cap StopIdx(set_stop_data') = {}
         /\ ActiveIdx(launchers') \cup StopIdx(set_stop_data') =
                (ActiveIdx(launchers) \cup StopIdx(set_stop_data)) \cup
                (IF StartStep THEN 0..(nextChild' - nextChild - 1) ELSE {})
      ]_vars

\* the texts a delete command can leave in the output of stop()
StopOutputs == {OutDeleted, OutError, OutEmpty, OutAlreadyStopped}

\* C28: stop() on a running batch launcher returns with the launcher in
\* 'after', its stop payload {job_id, output} made of the recorded job id,
\* and every observer that was waiting called exactly once with that
\* payload, whatever the outcome of the delete command.
C28_Claim ==
    [][(kind \in BatchKinds /\ state[Top] = "running" /\ StopStep) =>
         /\ raised' = "none"
         /\ state'[Top] = "after"
         /\ \E output \in StopOutputs :
                /\ stop_data'[Top] = StopData(job_id, output)
                /\ \A i \in 1..Len(NewCalls) :
                       NewCalls[i].data = StopData(job_id, output)
         /\ {NewCalls[i].cb : i \in 1..Len(NewCalls)} = Pending
         /\ Len(NewCalls) = Cardinality(Pending)
      ]_vars

\* ------------------------------------------------------------------
\* save_ids: the history of a view after a decorated call
\* ------------------------------------------------------------------
\* the ids a step appended to the history of the client
Appended ==
    SubSeq(client_history', Len(client_history) + 1, Len(client_history'))

\* C29: after a call decorated with save_ids, returned or raised, the
\* history of the view is extended by exactly the ids the call appended
\* to the history of the client; a call that sent no message leaves the
\* history and the outstanding set of the view unchanged.
C29_Claim ==
    [][/\ last_call' = "BroadcastView" =>
              view_history' = view_history \o Appended
       /\ last_call' \in {"LoadBalancedView", "RuntimeError"} =>
              /\ balanced_history' = balanced_history \o Appended
              /\ Appended = <<>> =>
                     /\ balanced_history' = balanced_history
                     /\ balanced_outstanding' = balanced_outstanding
      ]_vars

\* ------------------------------------------------------------------
\* launch_broadcast_schedulers: termination and the nodes launched
\* ------------------------------------------------------------------
\* the recursion of launch_broadcast_schedulers runs on
SpecTreeLive == SpecTree /\ WF_vars(NextTree)

\* the scheduler the step launches, when it launches one
Launches == Len(schedulers') = Len(schedulers) + 1
Launched == schedulers'[Len(schedulers')]
Identities == {schedulers[k].identity : k \in 1..Len(schedulers)}
TreeSize == Pow2(broadcast_scheduler_depth + 1) - 1

\* C30: the construction of the tree for a depth D >= 0 terminates; it has
\* then launched 2^(D+1) - 1 schedulers with the identities 0..2^(D+1) - 2;
\* no identity is ever launched twice and a scheduler other than the root
\* is launched after its parent (i - 1) div 2; the recursion goes on from
\* a scheduler with its two children, one level down, unless its depth is
\* D, where it stops.
C30_Construction ==
    /\ <>TreeLaunched
    /\ [](TreeLaunched =>
             /\ Len(schedulers) = TreeSize
             /\ Identities = 0..(TreeSize - 1))
    /\ [](\A j \in 1..Len(schedulers) :
             /\ \A k \in 1..Len(schedulers) :
                    schedulers[j].identity = schedulers[k].identity => j = k
             /\ schedulers[j].identity # 0 =>
                    \E i \in 1..(j - 1) :
                        schedulers[i].identity =
                            (schedulers[j].identity - 1) \div 2)
    /\ [][Launches =>
             /\ Launched.depth \in 0..broadcast_scheduler_depth
             /\ IF Launched.depth = broadcast_scheduler_depth
                THEN calls' = Tail(calls)
                ELSE calls' =
                       <<[identity |-> 2 * Launched.identity + 1,
                          depth |-> Launched.depth + 1],
                         [identity |-> 2 * Launched.identity + 2,
                          depth |-> Launched.depth + 1]>> \o Tail(calls)
        ]_vars

\* the tree of the largest depth is launched, its last scheduler being the
\* rightmost leaf
C30_Witness ==
    /\ TreeLaunched
    /\ broadcast_scheduler_depth = MaxDepth
    /\ Len(schedulers) = Pow2(MaxDepth + 1) - 1
    /\ schedulers[Len(schedulers)].identity = Pow2(MaxDepth + 1) - 2
    /\ schedulers[Len(schedulers)].depth = MaxDepth

\* ------------------------------------------------------------------
\* engine set: the state of the aggregate while children run
\* ------------------------------------------------------------------
\* C33: whenever an engine launcher of an engine set is 'running'
\* (observed between calls, also after a start(n) that raised while it
\* started some child), the engine set itself is 'running'.
C33_Claim ==
    kind = "set" =>
        ((\E c \in 1..MaxChildren : state[c] = "running") =>
             state[Top] = "running")

\* ------------------------------------------------------------------
\* LocalProcessLauncher: one stop notification per process
\* ------------------------------------------------------------------
\* the step is a poll() that found the process exited
ExitStep == op' \in {"exit0", "exit1"}
\* the poller and the two output handlers of the launcher are in the loop
Watched(l) == poller[l] /\ handlers[l] = {"stdout", "stderr"}
Unwatched(l) == ~poller[l] /\ handlers[l] = {}

\* C34: a poll() that finds the process exited, whether called by the
\* poller or by an output handler, notifies the stop of exactly one local
\* process launcher, which was 'running' and watched, and in the same
\* step stops its poller and removes its two handlers; a launcher that is
\* 'after' is watched by nothing, so no second notification can follow.
C34_OneStopNotification ==
    /\ [](\A l \in LocalIds :
             /\ state[l] = "running" => Watched(l)
             /\ state[l] # "running" => Unwatched(l))
    /\ [][ExitStep =>
             \E l \in LocalIds :
                 /\ state[l] = "running" /\ Watched(l)
                 /\ state'[l] = "after" /\ Unwatched(l)'
                 /\ stop_data'[l].tag = "exit"
                 /\ stop_data'[l].b = process[l]
                 /\ \A k \in LocalIds \ {l} :
                        /\ state'[k] = state[k]
                        /\ stop_data'[k] = stop_data[k]
                        /\ poller'[k] = poller[k]
                        /\ handlers'[k] = handlers[k]
       ]_vars
    /\ [][\A l \in LocalIds :
              state[l] = "after" =>
                  state'[l] = "after" /\ stop_data'[l] = stop_data[l]
       ]_vars

\* the stop of a local process launcher was noticed by an output handler
\* reading an empty line and its observers were called
C34_Witness ==
    /\ kind = "local"
    /\ state[Top] = "after"
    /\ op = "exit1"
    /\ Unwatched(Top)
    /\ Len(invoked) = 2
    /\ stop_data[Top] = ExitData(1, process[Top])

\* ------------------------------------------------------------------
\* set_flags: the flags of the view after a call that raised
\* ------------------------------------------------------------------
\* C35: when set_flags raises, every flag of the view keeps the value it
\* had before the call, also the flag whose value was rejected.
C35_Claim ==
    [][(~call'.applied /\ error' # "none") =>
           /\ after' = after
           /\ follow' = follow
           /\ timeout' = timeout
           /\ retries' = retries
      ]_vars


\* ------------------------------------------------------------------
\* sync_results: one synchronisation, at the end of the outermost call
\* ------------------------------------------------------------------
\* the outstanding set of the view the last call was made on
Called ==
    IF last_call \in {"BroadcastView", "gather"} THEN view_outstanding
    ELSE balanced_outstanding

\* C36: when an outermost call decorated with sync_results has returned
\* or raised, the outstanding set of its view is a subset of the
\* outstanding set of the client and _in_sync_results is False; a call
\* that makes decorated calls itself synchronises once, at its end.
C36_Claim ==
    /\ \A v \in DOMAIN in_sync_results : ~in_sync_results[v]
    /\ last_call # "none" =>
           /\ Called \subseteq client_outstanding
           /\ syncs = 1

\* gather over two targets has made two decorated calls of its own
C36_Witness ==
    /\ last_call = "gather"
    /\ Cardinality(targets) = 2
    /\ msg_count = 2
    /\ syncs = 1
    /\ view_outstanding \subseteq client_outstanding

\* ------------------------------------------------------------------
\* load_secondary_config: a failed load of the connection files
\* ------------------------------------------------------------------
\* initialize runs with reuse_files and load_config_from_json raises an
\* exception that load_secondary_config catches
LoadFails ==
    /\ ctl = "new" /\ ctl' # "new"
    /\ reuse_files
    /\ load_config_from_json \in {"IOError", "AssertionError"}

\* C37: when loading the existing connection files fails, because a file
\* is missing or because the two files disagree, the configuration is as
\* it was before the attempt, nothing of either file is kept in it, and
\* new connection files are then written.
C37_Claim ==
    [][LoadFails =>
           /\ Session_key' = Session_key
           /\ ctl' = "initialized" =>
                  /\ client_json_file' = ConnectionFile(run, run)
                  /\ engine_json_file' = ConnectionFile(run, run)
      ]_vars

\* ------------------------------------------------------------------
\* IPEngineApp.init_engine and load_connector_file: the connector file
\* ------------------------------------------------------------------
\* the chunks the writer of the connector file writes it in
MaxChunks == 3
\* the sleeps of init_engine before wait_for_url_file has passed
MaxWait == 2
max_tries == 5

\* json.loads(text) of the text between two positions of a file that
\* holds the first chunks of a JSON object: a proper prefix leaves the
\* object open, a proper suffix closes an object it did not open and the
\* empty text is no document, so only the whole object parses
ValidJSON(from, to) == from = 0 /\ to = MaxChunks

EngineInit ==
    /\ url_file \in [exists : BOOLEAN, written : 0..MaxChunks]
    /\ ~url_file.exists => url_file.written = 0
    /\ offset = 0
    /\ num_tries = 0
    /\ loaded_d = ""
    /\ elapsed = 0
    /\ eng = "waiting"

\* the controller, or a copy over the network, creates the file
file_created ==
    /\ eng # "idle"
    /\ ~url_file.exists
    /\ url_file' = [exists |-> TRUE, written |-> 0]
    /\ UNCHANGED <<offset, num_tries, loaded_d, elapsed, eng>>
    /\ UNCHANGED NotEngine

\* more of the file is written
file_written ==
    /\ url_file.exists
    /\ \E k \in (url_file.written + 1)..MaxChunks :
           url_file' = [url_file EXCEPT !.written = k]
    /\ UNCHANGED <<offset, num_tries, loaded_d, elapsed, eng>>
    /\ UNCHANGED NotEngine

\* init_engine: one time.sleep(0.1) of the loop that waits for the file
wait_for_url_file ==
    /\ eng = "waiting"
    /\ ~url_file.exists
    /\ elapsed < MaxWait
    /\ elapsed' = elapsed + 1
    /\ UNCHANGED <<url_file, offset, num_tries, loaded_d, eng>>
    /\ UNCHANGED NotEngine

\* init_engine after the wait: load_connector_file opens the file when
\* it exists, else the application exits
init_engine ==
    /\ eng = "waiting"
    /\ url_file.exists \/ elapsed = MaxWait
    /\ eng' = IF url_file.exists THEN "loading" ELSE "exit"
    /\ UNCHANGED <<url_file, offset, num_tries, loaded_d, elapsed>>
    /\ UNCHANGED NotEngine

\* load_connector_file: one turn of 'while not d', json.loads(f.read())
\* on the file opened once; f.read() returns what follows the position
\* of f and moves the position to the end
load_connector_file ==
    /\ eng = "loading"
    /\ offset' = url_file.written
    /\ IF ValidJSON(offset, url_file.written)
       THEN /\ loaded_d' = "dict"
            /\ eng' = "loaded"
            /\ UNCHANGED num_tries
       ELSE IF num_tries > max_tries
       THEN /\ eng' = "ValueError"
            /\ UNCHANGED <<loaded_d, num_tries>>
       ELSE /\ num_tries' = num_tries + 1
            /\ UNCHANGED <<loaded_d, eng>>
    /\ UNCHANGED <<url_file, elapsed>>
    /\ UNCHANGED NotEngine

InitEngine ==
    /\ LauncherInit
    /\ kind = "base"
    /\ TreeIdle
    /\ ScriptIdle
    /\ FlagsIdle
    /\ ClusterIdle
    /\ ControllerIdle
    /\ BroadcastIdle
    /\ TempIdle
    /\ SchedulerIdle
    /\ EngineInit
    /\ ShutdownIdle

NextEngine ==
    \/ file_created
    \/ file_written
    \/ wait_for_url_file
    \/ init_engine
    \/ load_connector_file

SpecEngine == InitEngine /\ [][NextEngine]_vars

\* a turn of the loop of load_connector_file is made
Attempt == eng = "loading" /\ <<offset, num_tries, eng>>' # <<offset, num_tries, eng>>

\* C39: load_connector_file parses again, a bounded number of times,
\* while the content of the file is not yet valid JSON: an attempt made
\* when the content has become valid succeeds, and the load raises only
\* after the bounded number of failed attempts.
C39_Claim ==
    [][/\ Attempt /\ url_file.written = MaxChunks => eng' = "loaded"
       /\ eng' = "ValueError" => num_tries' = max_tries + 1
       /\ num_tries' <= max_tries + 1
      ]_vars

\* ------------------------------------------------------------------
\* IPClusterStart / IPClusterEngines: starting and stopping on the loop
\* ------------------------------------------------------------------
\* the SIGINTs delivered to the application
MaxSigints == 2
\* IPClusterEngines.early_shutdown = Integer(30)
early_shutdown == 30
\* a launcher whose stop() signals a process that notifies when it has
\* exited ("process"), whose stop() calls notify_stop itself ("batch"),
\* or an engine set, which signals its children and does not notify
ControllerLaunchers == {"process", "batch"}
EngineLaunchers == {"process", "batch", "set"}

RECURSIVE stop_launchers(_, _)
RECURSIVE engines_stopped_early(_, _)

\* IPClusterEngines.engines_stopped: self.loop.stop();
\* IPClusterStart.engines_stopped: pass
engines_stopped(a) ==
    IF a.app = "IPClusterEngines" THEN [a EXCEPT !.loop = "stopped"] ELSE a

\* IPClusterEngines.stop_engines: engine_launcher.stop() when it runs; the
\* stop() of a batch launcher calls notify_stop, which runs the on_stop
\* callback engines_stopped_early at once
stop_engines(a, sig) ==
    IF a.engine_launcher = "running"
    THEN LET b == [a EXCEPT !.engine_stops = @ + 1]
         IN  IF a.engine_launcher_class = "batch"
             THEN engines_stopped_early(
                      [b EXCEPT !.engine_launcher = "after"], sig)
             ELSE b
    ELSE a

\* IPClusterEngines.stop_launchers; sig: a SIGINT is delivered after the
\* test of self._stopping and before self._stopping = True, and its
\* handler runs there
IPClusterEngines_stop_launchers(a, sig) ==
    IF ~a.stopping
    THEN LET b == IF sig /\ a.sigints < MaxSigints
                  THEN stop_launchers([a EXCEPT !.sigints = @ + 1], FALSE)
                  ELSE a
             c == stop_engines([b EXCEPT !.stopping = TRUE], FALSE)
         IN  [c EXCEPT !.stop_timeouts = @ + 1]
    ELSE a

\* IPClusterStart.stop_controller: controller_launcher.stop() when it
\* runs; the stop() of a batch launcher calls notify_stop, which runs the
\* on_stop callback stop_launchers at once
stop_controller(a, sig) ==
    IF a.controller_launcher = "running"
    THEN LET b == [a EXCEPT !.controller_stops = @ + 1]
         IN  IF a.controller_launcher_class = "batch"
             THEN stop_launchers(
                      [b EXCEPT !.controller_launcher = "after"], sig)
             ELSE b
    ELSE a

\* self.stop_launchers() of the application
stop_launchers(a, sig) ==
    IF a.app = "IPClusterStart"
    THEN IF ~a.stopping
         THEN IPClusterEngines_stop_launchers(stop_controller(a, sig), sig)
         ELSE a
    ELSE IPClusterEngines_stop_launchers(a, sig)

\* IPClusterEngines.engines_stopped_early, without the early_shutdown test
engines_stopped_always(a, sig) ==
    LET b == IF ~a.stopping THEN stop_launchers(a, sig) ELSE a
    IN  engines_stopped(b)

\* IPClusterEngines.engines_stopped_early
engines_stopped_early(a, sig) ==
    LET b == IF a.early_shutdown # 0 /\ ~a.stopping
             THEN stop_launchers(a, sig) ELSE a
    IN  engines_stopped(b)

\* the application before its loop starts: IPClusterStart.start has added
\* the callback start, IPClusterEngines.start the callback start_engines
NewApp(app_, controller_class, engine_class) ==
    [app |-> app_,
     controller_launcher_class |-> controller_class,
     engine_launcher_class |-> engine_class,
     controller_launcher |-> "before",
     engine_launcher |-> "before",
     stopping |-> FALSE,
     early_shutdown |-> early_shutdown,
     timeouts |-> IF app_ = "IPClusterStart" THEN {"start"}
                  ELSE {"start_engines"},
     loop |-> "running",
     engine_stops |-> 0,
     controller_stops |-> 0,
     stop_timeouts |-> 0,
     sigints |-> 0]

ShutdownInit ==
    /\ ipcluster \in
           {NewApp("IPClusterStart", c, e) :
                c \in ControllerLaunchers, e \in EngineLaunchers}
           \cup {NewApp("IPClusterEngines", "none", e) :
                     e \in EngineLaunchers}
    /\ last_event = "none"

\* the loop runs the callback r of the application
Runs(event, r) ==
    /\ ipcluster.loop = "running"
    /\ ipcluster' = r
    /\ last_event' = event
    /\ UNCHANGED NotShutdown

\* IPClusterStart.start.start: start_controller, then start_engines is
\* scheduled after self.delay
start_callback ==
    /\ "start" \in ipcluster.timeouts
    /\ Runs("start",
            [ipcluster EXCEPT
                !.controller_launcher = "running",
                !.timeouts = (@ \ {"start"}) \cup {"start_engines"}])

\* IPClusterEngines.start_engines, when its timeout is due
start_engines_timeout ==
    /\ "start_engines" \in ipcluster.timeouts
    /\ Runs("start_engines",
            [ipcluster EXCEPT
                !.engine_launcher = "running",
                !.timeouts = (@ \ {"start_engines"}) \cup
                             IF ipcluster.early_shutdown # 0
                             THEN {"engines_started_ok"} ELSE {}])

\* IPClusterEngines.engines_started_ok, when its timeout is due
engines_started_ok ==
    /\ "engines_started_ok" \in ipcluster.timeouts
    /\ Runs("engines_started_ok",
            [ipcluster EXCEPT
                !.early_shutdown = IF ipcluster.engine_launcher = "running"
                                   THEN 0 ELSE @,
                !.timeouts = @ \ {"engines_started_ok"}])

\* SIGINT: sigint_handler
SIGINT ==
    /\ ipcluster.sigints < MaxSigints
    /\ \E sig \in BOOLEAN :
           Runs("SIGINT",
                stop_launchers([ipcluster EXCEPT !.sigints = @ + 1], sig))

\* the controller process has exited: notify_stop of its launcher runs
\* the on_stop callback stop_launchers
controller_launcher_stopped ==
    /\ ipcluster.controller_launcher = "running"
    /\ ipcluster.controller_launcher_class = "process"
    /\ \E sig \in BOOLEAN :
           Runs("controller_launcher_stopped",
                stop_launchers(
                    [ipcluster EXCEPT !.controller_launcher = "after"],
                    sig))

\* the engine process has exited: notify_stop of its launcher runs the
\* on_stop callback engines_stopped_early
engine_launcher_stopped ==
    /\ ipcluster.engine_launcher = "running"
    /\ ipcluster.engine_launcher_class = "process"
    /\ \E sig \in BOOLEAN :
           Runs("engine_launcher_stopped",
                engines_stopped_early(
                    [ipcluster EXCEPT !.engine_launcher = "after"], sig))

\* the timeout of stop_launchers is due: self.loop.stop
loop_stop_timeout ==
    /\ ipcluster.stop_timeouts > 0
    /\ Runs("loop.stop", [ipcluster EXCEPT !.loop = "stopped"])

InitShutdown ==
    /\ LauncherInit
    /\ kind = "base"
    /\ TreeIdle
    /\ ScriptIdle
    /\ FlagsIdle
    /\ ClusterIdle
    /\ ControllerIdle
    /\ BroadcastIdle
    /\ TempIdle
    /\ SchedulerIdle
    /\ EngineIdle
    /\ ShutdownInit

NextShutdown ==
    \/ start_callback
    \/ start_engines_timeout
    \/ engines_started_ok
    \/ SIGINT
    \/ controller_launcher_stopped
    \/ engine_launcher_stopped
    \/ loop_stop_timeout

SpecShutdown == InitShutdown /\ [][NextShutdown]_vars

\* C31: whatever the order of SIGINTs, of the stop notification of the
\* controller launcher (also when stop_controller delivers it) and of an
\* early stop of the engine set, IPClusterStart shuts down at most once:
\* stop() of the engine launcher is called at most once, the delayed
\* loop stop is scheduled at most once, and a later trigger does nothing.
C31_Claim ==
    /\ [](ipcluster.app = "IPClusterStart" =>
              /\ ipcluster.engine_stops <= 1
              /\ ipcluster.stop_timeouts <= 1)
    /\ [][ipcluster.app = "IPClusterStart" /\ ipcluster.stopping =>
              /\ ipcluster'.engine_stops = ipcluster.engine_stops
              /\ ipcluster'.stop_timeouts = ipcluster.stop_timeouts
              /\ ipcluster'.controller_stops = ipcluster.controller_stops
         ]_vars

\* C32: once the shutdown of ipcluster start has begun, no engine is
\* started: the start_engines callback delayed past the request to stop
\* launches nothing.
C32_Claim ==
    [][ipcluster.app = "IPClusterStart" /\ ipcluster.stopping =>
           (ipcluster'.engine_launcher = "running" =>
                ipcluster.engine_launcher = "running")
      ]_vars

\* the step is the stop notification of the engine launcher, given by
\* the loop
EngineStopNotified == last_event' = "engine_launcher_stopped"

\* C38: a stop notification of the engine launcher that comes while
\* early_shutdown is non-zero and no stop is in progress makes the
\* application stop its launchers, the controller too in ipcluster start;
\* when engines_started_ok has run with the engine launcher running, a
\* later stop of the engines does not stop the controller of ipcluster
\* start, while ipcluster engines stops its loop on every stop of the
\* engine launcher.
C38_Claim ==
    [][/\ EngineStopNotified /\ ipcluster.early_shutdown # 0
                             /\ ~ipcluster.stopping =>
              /\ ipcluster'.stopping
              /\ ipcluster'.stop_timeouts > ipcluster.stop_timeouts
              /\ ipcluster.controller_launcher = "running" =>
                     ipcluster'.controller_stops >
                         ipcluster.controller_stops
       /\ last_event' = "engines_started_ok" =>
              ipcluster'.early_shutdown =
                  IF ipcluster.engine_launcher = "running" THEN 0
                  ELSE ipcluster.early_shutdown
       /\ EngineStopNotified /\ ipcluster.early_shutdown = 0
                             /\ ipcluster.app = "IPClusterStart" =>
              /\ ipcluster'.controller_stops = ipcluster.controller_stops
              /\ ipcluster'.controller_launcher =
                     ipcluster.controller_launcher
              /\ ipcluster'.stopping = ipcluster.stopping
              /\ ipcluster'.stop_timeouts = ipcluster.stop_timeouts
       /\ EngineStopNotified /\ ipcluster.app = "IPClusterEngines" =>
              ipcluster'.loop = "stopped"
      ]_vars

\* the engines of ipcluster start have stopped after engines_started_ok:
\* the controller runs on and no stop is in progress
C38_Witness ==
    /\ last_event = "engine_launcher_stopped"
    /\ ipcluster.app = "IPClusterStart"
    /\ ipcluster.early_shutdown = 0
    /\ ipcluster.engine_launcher = "after"
    /\ ipcluster.controller_launcher = "running"
    /\ ~ipcluster.stopping
    /\ ipcluster.stop_timeouts = 0
=============================================================================
